---- MODULE Spec2Model ----
(***************************************************************************)
(* A model of the gem_code session engine: the transcript (Session.history) *)
(* the stream accumulator and round-trip loop of Session.chat               *)
(* (src/src/session.py) and the tool dispatcher run_tool with its helpers   *)
(* (src/src/tool.py).                                                       *)
(*                                                                          *)
(* Representation.  A Python str is a sequence of one-character strings     *)
(* (Text), so prefixes and lengths are those of the program's strings.  The *)
(* JSON argument payload of a tool call is a sequence of JSON lexemes; a    *)
(* stream splits it between lexemes.  None is the string NoneVal for ids,   *)
(* types and tool_call_id, and the record field isNone for argument text.   *)
(* A tool-call fragment is [id, type, name, arguments], the fields of       *)
(* tc.id, tc.type, tc.function.name and tc.function.arguments.              *)
(***************************************************************************)
EXTENDS Integers, Sequences, FiniteSets, TLC

\* ------------------------------------------------------------------ bounds
\* chat calls made in one behaviour
MaxChats == 2
\* completion requests issued in one behaviour (all chat calls together)
MaxRequests == 2
\* chunks the streams deliver in one behaviour (all requests together)
MaxChunks == 3
\* chunks the streams deliver in one behaviour of the accumulator specification
MaxTurnChunks == 4

\* ------------------------------------------------------------------ texts
NoneVal == "<None>"

STR_bash == <<"b","a","s","h">>
STR_read_file == <<"r","e","a","d","_","f","i","l","e">>
STR_write_file == <<"w","r","i","t","e","_","f","i","l","e">>
STR_StrReplaceFile == <<"S","t","r","R","e","p","l","a","c","e","F","i","l","e">>
STR_fetch_url == <<"f","e","t","c","h","_","u","r","l">>
STR_command == <<"c","o","m","m","a","n","d">>
STR_path == <<"p","a","t","h">>
STR_content == <<"c","o","n","t","e","n","t">>
STR_edits == <<"e","d","i","t","s">>
STR_url == <<"u","r","l">>
STR_target == <<"t","a","r","g","e","t">>
STR_replacement == <<"r","e","p","l","a","c","e","m","e","n","t">>
STR_UnknownTool == <<"E","r","r","o","r",":"," ","U","n","k","n","o","w","n"," ","t","o","o","l",":"," ">>
STR_ErrorExecuting == <<"E","r","r","o","r"," ","e","x","e","c","u","t","i","n","g"," ","t","o","o","l"," ">>
STR_ColonSpace == <<":"," ">>
STR_ErrorReading == <<"E","r","r","o","r"," ","r","e","a","d","i","n","g"," ","f","i","l","e"," ">>
STR_WroteTo == <<"S","u","c","c","e","s","s","f","u","l","l","y"," ","w","r","o","t","e"," ","t","o"," ">>
STR_ErrorWriting == <<"E","r","r","o","r"," ","w","r","i","t","i","n","g"," ","t","o"," ","f","i","l","e"," ">>
STR_Replaced == <<"S","u","c","c","e","s","s","f","u","l","l","y"," ","p","e","r","f","o","r","m","e","d"," ","s","t","r","i","n","g"," ","r","e","p","l","a","c","e","m","e","n","t","s"," ","i","n"," ">>
STR_ErrorReplacing == <<"E","r","r","o","r"," ","p","e","r","f","o","r","m","i","n","g"," ","s","t","r","i","n","g"," ","r","e","p","l","a","c","e","m","e","n","t","s"," ","i","n"," ","f","i","l","e"," ">>
STR_FailedFetch == <<"F","a","i","l","e","d"," ","t","o"," ","f","e","t","c","h"," ","t","h","e"," ","u","r","l"," ">>
STR_EmptyOutput == <<"(","e","m","p","t","y"," ","o","u","t","p","u","t",")">>
STR_OmittedHead == <<"\n",".",".",".","[">>
STR_OmittedTail == <<" ","c","h","a","r","a","c","t","e","r","s"," ","o","m","i","t","t","e","d","]",".",".",".","\n">>
\* str(e) of a caught exception: the cause text is the platform's, one stand-in
STR_cause == <<"c","a","u","s","e">>

StartsWith(s, p) == Len(s) >= Len(p) /\ SubSeq(s, 1, Len(p)) = p

\* ------------------------------------------------------- config.py records
Message(role, content, tool_calls, tool_call_id) ==
    [role |-> role, content |-> content, tool_calls |-> tool_calls,
     tool_call_id |-> tool_call_id]

\* Message.tool_calls: None, or a list of ToolCall
NoToolCalls == [isNone |-> TRUE, list |-> <<>>]
ToolCallList(l) == [isNone |-> FALSE, list |-> l]

\* FunctionCall.arguments as the stream leaves it: None or an argument text
NoArgs == [isNone |-> TRUE, text |-> <<>>]
ArgText(t) == [isNone |-> FALSE, text |-> t]
\* Python truthiness of an Optional[str]
Truthy(a) == ~a.isNone /\ a.text # <<>>

\* ToolCall(id=tc.id, function=tc.function, type=tc.type): the entry holds the
\* fragment's own function object, so its name and arguments are the fragment's
ToolCall(tc) ==
    [id |-> tc.id, type |-> tc.type, name |-> tc.name, arguments |-> tc.arguments]

\* ---------------------------------------------------- stream accumulator
\* mutant of IndexOfId: no id is ever found among the entries
IdNeverFound(map, id) == 0

\* the position of an id among the entries of tool_calls_map, 0 when absent
IndexOfId(map, id) ==
    IF \E i \in 1..Len(map) : map[i].id = id
    THEN CHOOSE i \in 1..Len(map) : map[i].id = id
    ELSE 0

\* entry.function.arguments += text; None += str raises TypeError
AppendArguments(map, i, text) ==
    IF map[i].arguments.isNone
    THEN [raised |-> TRUE, map |-> map]
    ELSE [raised |-> FALSE,
          map |-> [map EXCEPT ![i].arguments.text = @ \o text]]

\* mutant of LastEntry: a fragment without an id goes to the first entry
FirstEntry(map) == 1

\* the target of a fragment that carries no id: entries[-1]
LastEntry(map) == Len(map)

\* mutant of ApplyFragment: a fragment without an id that finds no entry opens one
ApplyFragmentFabricatesEntry(map, tc) ==
    IF tc.id # NoneVal
    THEN IF IndexOfId(map, tc.id) # 0
         THEN IF Truthy(tc.arguments)
              THEN AppendArguments(map, IndexOfId(map, tc.id), tc.arguments.text)
              ELSE [raised |-> FALSE, map |-> map]
         ELSE [raised |-> FALSE, map |-> Append(map, ToolCall(tc))]
    ELSE IF Truthy(tc.arguments)
         THEN IF Len(map) > 0
              THEN AppendArguments(map, LastEntry(map), tc.arguments.text)
              ELSE [raised |-> FALSE, map |-> <<ToolCall(tc)>>]
         ELSE [raised |-> FALSE, map |-> map]

\* one iteration of `for tc in delta.tool_calls` on tool_calls_map
ApplyFragment(map, tc) ==
    IF tc.id # NoneVal
    THEN IF IndexOfId(map, tc.id) # 0
         THEN IF Truthy(tc.arguments)
              THEN AppendArguments(map, IndexOfId(map, tc.id), tc.arguments.text)
              ELSE [raised |-> FALSE, map |-> map]
         ELSE [raised |-> FALSE, map |-> Append(map, ToolCall(tc))]
    ELSE IF Truthy(tc.arguments) /\ Len(map) > 0
         THEN AppendArguments(map, LastEntry(map), tc.arguments.text)
         ELSE [raised |-> FALSE, map |-> map]

\* the whole `for tc in delta.tool_calls` loop; an exception ends it
RECURSIVE ApplyFragments(_, _)
ApplyFragments(map, tcs) ==
    IF tcs = <<>>
    THEN [raised |-> FALSE, map |-> map]
    ELSE LET r == ApplyFragment(map, Head(tcs))
         IN  IF r.raised THEN r ELSE ApplyFragments(r.map, Tail(tcs))

\* the accumulator of one model turn: has_tool_calls, full_content, tool_calls_map
NewAcc == [has_tool_calls |-> FALSE, full_content |-> <<>>, tool_calls_map |-> <<>>]

\* mutant of ApplyDelta: has_tool_calls is set only once an entry exists
ApplyDeltaFlagOnEntry(acc, delta) ==
    LET text == IF delta.content # <<>>
                THEN acc.full_content \o delta.content
                ELSE acc.full_content
        r == ApplyFragments(acc.tool_calls_map, delta.tool_calls)
    IN  IF delta.tool_calls # <<>>
        THEN [raised |-> r.raised,
              acc |-> [has_tool_calls |-> r.map # <<>>, full_content |-> text,
                       tool_calls_map |-> r.map]]
        ELSE [raised |-> FALSE,
              acc |-> [acc EXCEPT !.full_content = text]]

\* the body of `async for chunk in stream` for one delta [content, tool_calls]
ApplyDelta(acc, delta) ==
    LET text == IF delta.content # <<>>
                THEN acc.full_content \o delta.content
                ELSE acc.full_content
        r == ApplyFragments(acc.tool_calls_map, delta.tool_calls)
    IN  IF delta.tool_calls # <<>>
        THEN [raised |-> r.raised,
              acc |-> [has_tool_calls |-> TRUE, full_content |-> text,
                       tool_calls_map |-> r.map]]
        ELSE [raised |-> FALSE,
              acc |-> [acc EXCEPT !.full_content = text]]

\* ------------------------------------------------------ Python values
\* what json.loads returns and what run_tool receives: [k |-> kind, v |-> value]
PyStr(t) == [k |-> "str", v |-> t]
PyInt(t) == [k |-> "int", v |-> t]
PyNone == [k |-> "none", v |-> <<>>]
PyList(l) == [k |-> "list", v |-> l]
PyDict(m) == [k |-> "dict", v |-> m]
EmptyDict == PyDict(<<>>)

\* ------------------------------------------------------ JSON lexemes
Lex(t, v) == [t |-> t, v |-> v]
LBrace == Lex("{", <<>>)
RBrace == Lex("}", <<>>)
LBracket == Lex("[", <<>>)
RBracket == Lex("]", <<>>)
Colon == Lex(":", <<>>)
Comma == Lex(",", <<>>)
JNull == Lex("null", <<>>)
JStr(t) == Lex("str", t)
JNum(t) == Lex("num", t)

ParseFail == [ok |-> FALSE, val |-> PyNone, next |-> 0]
ParseOk(val, next) == [ok |-> TRUE, val |-> val, next |-> next]
IsLex(t, i, kind) == i <= Len(t) /\ t[i].t = kind

\* json.loads on a lexeme sequence: the JSON grammar of values, objects and arrays
RECURSIVE ParseValue(_, _), ParseMembers(_, _, _), ParseElements(_, _, _)
ParseValue(t, i) ==
    IF i > Len(t) THEN ParseFail
    ELSE CASE t[i].t = "str" -> ParseOk(PyStr(t[i].v), i + 1)
           [] t[i].t = "num" -> ParseOk(PyInt(t[i].v), i + 1)
           [] t[i].t = "null" -> ParseOk(PyNone, i + 1)
           [] t[i].t = "{" -> IF IsLex(t, i + 1, "}")
                              THEN ParseOk(EmptyDict, i + 2)
                              ELSE ParseMembers(t, i + 1, <<>>)
           [] t[i].t = "[" -> IF IsLex(t, i + 1, "]")
                              THEN ParseOk(PyList(<<>>), i + 2)
                              ELSE ParseElements(t, i + 1, <<>>)
           [] OTHER -> ParseFail

\* members of an object from position i; a repeated key keeps its last value
ParseMembers(t, i, m) ==
    IF ~(IsLex(t, i, "str") /\ IsLex(t, i + 1, ":")) THEN ParseFail
    ELSE LET r == ParseValue(t, i + 2)
         IN  IF ~r.ok THEN ParseFail
             ELSE LET m2 == (t[i].v :> r.val) @@ m
                  IN  IF IsLex(t, r.next, ",") THEN ParseMembers(t, r.next + 1, m2)
                      ELSE IF IsLex(t, r.next, "}") THEN ParseOk(PyDict(m2), r.next + 1)
                      ELSE ParseFail

ParseElements(t, i, l) ==
    LET r == ParseValue(t, i)
    IN  IF ~r.ok THEN ParseFail
        ELSE IF IsLex(t, r.next, ",") THEN ParseElements(t, r.next + 1, Append(l, r.val))
        ELSE IF IsLex(t, r.next, "]") THEN ParseOk(PyList(Append(l, r.val)), r.next + 1)
        ELSE ParseFail

\* json.loads(s): TypeError when s is None, JSONDecodeError when s is no JSON text
JsonLoads(a) ==
    IF a.isNone THEN [error |-> "TypeError", val |-> PyNone]
    ELSE LET r == ParseValue(a.text, 1)
         IN  IF r.ok /\ r.next = Len(a.text) + 1
             THEN [error |-> "", val |-> r.val]
             ELSE [error |-> "JSONDecodeError", val |-> PyNone]

\* parseToolArguments: only json.JSONDecodeError is caught and replaced by {}
CaughtByParse(error) == error = "JSONDecodeError"

ParseToolArguments(toolcall) ==
    LET r == JsonLoads(toolcall.arguments)
    IN  IF r.error = "" THEN [raised |-> FALSE, args |-> r.val]
        ELSE IF CaughtByParse(r.error) THEN [raised |-> FALSE, args |-> EmptyDict]
        ELSE [raised |-> TRUE, args |-> PyNone]

\* ------------------------------------------------------ tool.py
OUTPUT_TRUNCATE_LENGTH == 32000

\* str(n) for n >= 0
Digit(d) == CASE d = 0 -> "0" [] d = 1 -> "1" [] d = 2 -> "2" [] d = 3 -> "3"
              [] d = 4 -> "4" [] d = 5 -> "5" [] d = 6 -> "6" [] d = 7 -> "7"
              [] d = 8 -> "8" [] OTHER -> "9"
RECURSIVE NatToText(_)
NatToText(n) == IF n < 10 THEN <<Digit(n)>> ELSE NatToText(n \div 10) \o <<Digit(n % 10)>>
IntToText(n) == IF n < 0 THEN <<"-">> \o NatToText(0 - n) ELSE NatToText(n)

\* output.rstrip('\n')
RECURSIVE RStripNewlines(_)
RStripNewlines(s) ==
    IF s # <<>> /\ s[Len(s)] = "\n" THEN RStripNewlines(SubSeq(s, 1, Len(s) - 1)) ELSE s

\* int(OUTPUT_TRUNCATE_LENGTH * 0.2)
HeadLen == (OUTPUT_TRUNCATE_LENGTH * 2) \div 10
TailLen == (OUTPUT_TRUNCATE_LENGTH * 2) \div 10

\* mutant of ExceedsLimit: an output at the threshold is truncated too
ReachesLimit(cleaned) == Len(cleaned) >= OUTPUT_TRUNCATE_LENGTH

\* len(cleaned) > OUTPUT_TRUNCATE_LENGTH
ExceedsLimit(cleaned) == Len(cleaned) > OUTPUT_TRUNCATE_LENGTH

\* mutant of Skipped: the count is taken from the stripped output
SkippedOfCleaned(raw, cleaned) == Len(cleaned) - HeadLen - TailLen

\* skipped = len(output) - head_len - tail_len, of the output as it was given
Skipped(raw, cleaned) == Len(raw) - HeadLen - TailLen

formatted_tool_output(raw) ==
    LET cleaned == RStripNewlines(raw)
    IN  IF ExceedsLimit(cleaned)
        THEN LET head == SubSeq(cleaned, 1, HeadLen)
                 tail == SubSeq(cleaned, Len(cleaned) - TailLen + 1, Len(cleaned))
                 skipped == Skipped(raw, cleaned)
             IN  head \o STR_OmittedHead \o IntToText(skipped) \o STR_OmittedTail \o tail
        ELSE cleaned

\* The file system the tools act on: a function from the paths of existing regular
\* files to their content.  Dirs are the existing directories; a file can be
\* created only directly inside one of them.
WORKDIR == <<"/","w">>
Dirs == {WORKDIR, WORKDIR \o <<"/">>}
IsFile(fs, path) == path \in DOMAIN fs

RECURSIVE LastSlash(_)
LastSlash(p) == IF p = <<>> \/ p[Len(p)] = "/" THEN Len(p) ELSE LastSlash(SubSeq(p, 1, Len(p) - 1))
\* open(path, 'w') succeeds on an existing file and where a new file can be created
CanOpenForWrite(fs, path) ==
    \/ IsFile(fs, path)
    \/ /\ path \notin Dirs
       /\ LastSlash(path) < Len(path)
       /\ SubSeq(path, 1, LastSlash(path)) \in Dirs

\* os.path.join(os.path.expanduser(workdir), path) for str arguments
PathJoin(workdir, path) ==
    IF path # <<>> /\ path[1] = "/" THEN path
    ELSE IF workdir # <<>> /\ workdir[Len(workdir)] = "/" THEN workdir \o path
    ELSE workdir \o <<"/">> \o path

\* the result of a tool helper: the text it returns, or the exception it lets
\* escape (raised), the file system it leaves, and the except clause or error
\* branch that produced the text ("" when none did); raw keeps the text as it
\* was before run_tool passed it through formatted_tool_output
ToolResult(raised, text, fs, caught) ==
    [raised |-> raised, text |-> text, raw |-> text, fs |-> fs, caught |-> caught]
Raises(fs) == ToolResult(TRUE, <<>>, fs, "")

\* subprocess.run(command, shell=True) takes a str or an iterable of strs (the
\* keys of a dict are strs) and raises TypeError for anything else
IsShellCommand(command) ==
    \/ command.k \in {"str", "dict"}
    \/ command.k = "list" /\ \A i \in 1..Len(command.v) : command.v[i].k = "str"

\* mutant of run_bash: a non-zero exit code raises (subprocess.run with check=True)
run_bash_checked(command, workdir, fs, env) ==
    IF ~IsShellCommand(command) \/ env.raises \/ env.returncode # 0
    THEN Raises(fs)
    ELSE ToolResult(FALSE,
                    IF env.stdout # <<>> THEN env.stdout
                    ELSE IF env.stderr # <<>> THEN env.stderr ELSE STR_EmptyOutput,
                    fs, "")

\* run_bash: env is what the shell run does, [raises, returncode, stdout, stderr];
\* the exit code is not looked at
run_bash(command, workdir, fs, env) ==
    IF ~IsShellCommand(command) \/ env.raises
    THEN Raises(fs)
    ELSE ToolResult(FALSE,
                    IF env.stdout # <<>> THEN env.stdout
                    ELSE IF env.stderr # <<>> THEN env.stderr ELSE STR_EmptyOutput,
                    fs, "")

\* Files are opened in text mode with the default newline=None. Reading
\* translates the line endings "\r\n" and "\r" to "\n"; fs holds the
\* characters stored in the file.
RECURSIVE UniversalNewlines(_)
UniversalNewlines(stored) ==
    IF stored = <<>> THEN <<>>
    ELSE IF Head(stored) = "\r"
         THEN IF Len(stored) >= 2 /\ stored[2] = "\n"
              THEN <<"\n">> \o UniversalNewlines(SubSeq(stored, 3, Len(stored)))
              ELSE <<"\n">> \o UniversalNewlines(Tail(stored))
         ELSE <<Head(stored)>> \o UniversalNewlines(Tail(stored))

\* Writing replaces each "\n" by os.linesep, which is "\n" on the POSIX systems
\* the tools are written for (shell commands, expanduser)
LINESEP == <<"\n">>
RECURSIVE WrittenNewlines(_)
WrittenNewlines(text) ==
    IF text = <<>> THEN <<>>
    ELSE (IF Head(text) = "\n" THEN LINESEP ELSE <<Head(text)>>)
         \o WrittenNewlines(Tail(text))

run_read_file(path, workdir, fs) ==
    IF path.k # "str" THEN Raises(fs)
    ELSE LET p == PathJoin(workdir, path.v)
         IN  IF IsFile(fs, p)
             THEN ToolResult(FALSE, UniversalNewlines(fs[p]), fs, "")
             ELSE ToolResult(FALSE, STR_ErrorReading \o p \o STR_ColonSpace \o STR_cause,
                             fs, "read")

\* open(path, 'w') truncates the file before f.write(content) can fail
run_write_file(path, content, workdir, fs) ==
    IF path.k # "str" THEN Raises(fs)
    ELSE LET p == PathJoin(workdir, path.v)
             failure(fs2) == ToolResult(FALSE,
                 STR_ErrorWriting \o p \o STR_ColonSpace \o STR_cause, fs2, "write")
         IN  IF ~CanOpenForWrite(fs, p) THEN failure(fs)
             ELSE IF content.k # "str" THEN failure((p :> <<>>) @@ fs)
             ELSE ToolResult(FALSE, STR_WroteTo \o p,
                             (p :> WrittenNewlines(content.v)) @@ fs, "")

\* dict.get(key, default) on a parsed value known to be a dict
DictGet(d, key, default) == IF key \in DOMAIN d.v THEN d.v[key] ELSE default

\* content.replace(target, replacement, 1): the first occurrence only; an empty
\* target occurs at the very start
Occurs(content, target, i) ==
    /\ i + Len(target) - 1 <= Len(content)
    /\ SubSeq(content, i, i + Len(target) - 1) = target
\* mutant of ReplaceFirst: the last occurrence is the one replaced
ReplaceLast(content, target, replacement) ==
    IF \E i \in 1..(Len(content) + 1) : Occurs(content, target, i)
    THEN LET i == CHOOSE j \in 1..(Len(content) + 1) :
                    /\ Occurs(content, target, j)
                    /\ \A h \in (j + 1)..(Len(content) + 1) : ~Occurs(content, target, h)
         IN  SubSeq(content, 1, i - 1) \o replacement
                 \o SubSeq(content, i + Len(target), Len(content))
    ELSE content

ReplaceFirst(content, target, replacement) ==
    IF \E i \in 1..(Len(content) + 1) : Occurs(content, target, i)
    THEN LET i == CHOOSE j \in 1..(Len(content) + 1) :
                    /\ Occurs(content, target, j)
                    /\ \A h \in 1..(j - 1) : ~Occurs(content, target, h)
         IN  SubSeq(content, 1, i - 1) \o replacement
                 \o SubSeq(content, i + Len(target), Len(content))
    ELSE content

\* one iteration of `for edit in edits`: edit.get needs a dict, str.replace needs strs
ApplyEdit(content, edit) ==
    IF edit.k # "dict" THEN [raised |-> TRUE, content |-> content]
    ELSE LET target == DictGet(edit, STR_target, PyStr(<<>>))
             replacement == DictGet(edit, STR_replacement, PyStr(<<>>))
         IN  IF target.k # "str" \/ replacement.k # "str"
             THEN [raised |-> TRUE, content |-> content]
             ELSE [raised |-> FALSE,
                   content |-> ReplaceFirst(content, target.v, replacement.v)]

RECURSIVE ApplyEdits(_, _)
ApplyEdits(content, edits) ==
    IF edits = <<>> THEN [raised |-> FALSE, content |-> content]
    ELSE LET r == ApplyEdit(content, Head(edits))
         IN  IF r.raised THEN r ELSE ApplyEdits(r.content, Tail(edits))

\* what `for edit in edits` iterates over: the elements of a list; an empty str or
\* dict gives no iteration, a non-empty one gives strs (no .get); others do not iterate
EditsIterable(edits) == edits.k \in {"list", "str", "dict"}
EditsItems(edits) ==
    IF edits.k = "list" THEN edits.v
    ELSE IF edits.v = <<>> THEN <<>> ELSE <<PyStr(<<>>)>>

\* mutant of run_str_replace_file: the content is written back as far as the
\* edits got when one of them fails
run_str_replace_file_partial(path, edits, workdir, fs) ==
    IF path.k # "str" THEN Raises(fs)
    ELSE LET p == PathJoin(workdir, path.v)
             failure == ToolResult(FALSE,
                 STR_ErrorReplacing \o p \o STR_ColonSpace \o STR_cause, fs, "replace")
         IN  IF ~IsFile(fs, p) \/ ~EditsIterable(edits) THEN failure
             ELSE LET r == ApplyEdits(UniversalNewlines(fs[p]), EditsItems(edits))
                  IN  IF r.raised
                      THEN [failure EXCEPT !.fs = [fs EXCEPT ![p] = WrittenNewlines(r.content)]]
                      ELSE ToolResult(FALSE, STR_Replaced \o p,
                                      [fs EXCEPT ![p] = WrittenNewlines(r.content)], "")

run_str_replace_file(path, edits, workdir, fs) ==
    IF path.k # "str" THEN Raises(fs)
    ELSE LET p == PathJoin(workdir, path.v)
             failure == ToolResult(FALSE,
                 STR_ErrorReplacing \o p \o STR_ColonSpace \o STR_cause, fs, "replace")
         IN  IF ~IsFile(fs, p) \/ ~EditsIterable(edits) THEN failure
             ELSE LET r == ApplyEdits(UniversalNewlines(fs[p]), EditsItems(edits))
                  IN  IF r.raised THEN failure
                      ELSE ToolResult(FALSE, STR_Replaced \o p,
                                      [fs EXCEPT ![p] = WrittenNewlines(r.content)], "")

\* str(x) inside an f-string; the repr of a non-str value is one stand-in character
FormatValue(x) == IF x.k = "str" THEN x.v ELSE <<"?">>

\* run_fetch_url_to_markdown: env is what fetch_url and extract do,
\* [raises, result], result empty when extract returns None or ""
run_fetch_url_to_markdown(url, fs, env) ==
    IF env.raises
    THEN ToolResult(FALSE,
             STR_FailedFetch \o FormatValue(url) \o STR_ColonSpace \o STR_cause, fs, "fetch")
    ELSE ToolResult(FALSE, env.result, fs, "")

\* the body of run_tool's try block: args.get raises when args is not a dict
Dispatch(name, args, workdir, fs, env) ==
    LET get(key, default) == DictGet(args, key, default)
        formatted(r) == IF r.raised THEN r ELSE [r EXCEPT !.text = formatted_tool_output(@)]
    IN  IF name = STR_bash
        THEN IF args.k # "dict" THEN Raises(fs)
             ELSE formatted(run_bash(get(STR_command, PyStr(<<>>)), workdir, fs, env.bash))
        ELSE IF name = STR_read_file
        THEN IF args.k # "dict" THEN Raises(fs)
             ELSE formatted(run_read_file(get(STR_path, PyStr(<<>>)), workdir, fs))
        ELSE IF name = STR_write_file
        THEN IF args.k # "dict" THEN Raises(fs)
             ELSE formatted(run_write_file(get(STR_path, PyStr(<<>>)),
                                           get(STR_content, PyStr(<<>>)), workdir, fs))
        ELSE IF name = STR_StrReplaceFile
        THEN IF args.k # "dict" THEN Raises(fs)
             ELSE formatted(run_str_replace_file(get(STR_path, PyStr(<<>>)),
                                                 get(STR_edits, PyList(<<>>)), workdir, fs))
        ELSE IF name = STR_fetch_url
        THEN IF args.k # "dict" THEN Raises(fs)
             ELSE formatted(run_fetch_url_to_markdown(get(STR_url, PyStr(<<>>)), fs, env.fetch))
        ELSE ToolResult(FALSE, STR_UnknownTool \o name, fs, "unknown")

\* mutant of CatchAll: run_tool without its try/except
NoCatchAll(r, name) == r

\* `except Exception as e` of run_tool
CatchAll(r, name) ==
    IF r.raised
    THEN ToolResult(FALSE, STR_ErrorExecuting \o name \o STR_ColonSpace \o STR_cause,
                    r.fs, "dispatcher")
    ELSE r

\* mutant of run_tool: an unknown name is an exception that leaves run_tool
run_tool_unknown_raises(name, args, workdir, fs, env) ==
    IF name \in {STR_bash, STR_read_file, STR_write_file, STR_StrReplaceFile, STR_fetch_url}
    THEN CatchAll(Dispatch(name, args, workdir, fs, env), name)
    ELSE Raises(fs)

\* run_tool, lines 150-176
run_tool(name, args, workdir, fs, env) ==
    CatchAll(Dispatch(name, args, workdir, fs, env), name)

\* ------------------------------------------------------ session.py
\* get_system_prompt() and the text format_skill_for_prompt gives for the skills
STR_system == <<"S">>
STR_skills == <<"K">>

\* _message_to_dict: the keys tool_calls and tool_call_id are present only when
\* the field is truthy
WireToolCall(tc) ==
    [id |-> tc.id, type |-> tc.type,
     function |-> [name |-> tc.name, arguments |-> tc.arguments]]
WireToolCalls(l) == [i \in 1..Len(l) |-> WireToolCall(l[i])]
MessageToDict(m) ==
    [role |-> m.role, content |-> m.content,
     has_tool_calls |-> ~m.tool_calls.isNone /\ m.tool_calls.list # <<>>,
     tool_calls |-> WireToolCalls(m.tool_calls.list),
     has_tool_call_id |-> m.tool_call_id # NoneVal /\ m.tool_call_id # "",
     tool_call_id |-> m.tool_call_id]

VARIABLES
    config,       \* Config: skills_dir set or not, and the skills text found there
    history,      \* Session.history
    fs,           \* the files under the working directory
    pc,           \* where the chat coroutine stands: idle (no call in progress),
                  \* loop (top of `while True`), create (awaiting completions.create),
                  \* stream (in `async for`), tools (top of the for loop over the
                  \* tool calls), run_tool (awaiting run_tool)
    outcome,      \* how the last chat call ended: "" (none ended yet or one is in
                  \* progress), "returned", or the name of the exception it raised
    request,      \* the messages argument of the latest completion request
    outstanding,  \* completion requests issued and not yet ended
    acc,          \* has_tool_calls, full_content, tool_calls_map of this turn
    turn,         \* the deltas the stream of the latest request has delivered
    message,      \* the assistant message of this round
    idx,          \* position of the for loop in message.tool_calls (1-based)
    args,         \* parseToolArguments(toolcall) of the call being run
    result,       \* what run_tool (or a direct call of formatted_tool_output)
                  \* returned last
    output,       \* the raw text formatted_tool_output was last given, or that
                  \* run_tool returned unformatted
    on_chunk,     \* whether the chat call in progress was given a per-chunk callback
    calls,        \* the arguments of the callback's invocations during this turn
    TOOLS,        \* the tool registry, the module-level list of tool.py
    tools_sent,   \* the tools argument of the latest completion request
    cli,          \* the interactive loop of cli.py, when it drives the session
    tui,          \* the application of tui.py, when it drives the session
    chats,        \* chat calls made so far
    requests,     \* completion requests issued so far
    chunks        \* chunks delivered so far

vars == <<config, history, fs, pc, outcome, request, outstanding, acc, turn,
          message, idx, args, result, output, on_chunk, calls, TOOLS, tools_sent,
          cli, tui, chats, requests, chunks>>

NoMessage == Message("", <<>>, NoToolCalls, NoneVal)

\* TOOLS: the names of the descriptors the registry lists, in its order
TOOLS_registry ==
    <<STR_bash, STR_read_file, STR_write_file, STR_StrReplaceFile, STR_fetch_url>>

\* the front ends when they do not drive the session
NoCli == [pc |-> "off", handled |-> 0, reported |-> 0]
\* GemCodeApp.__init__: session None, _is_generating False. tasks counts the
\* _generate_response tasks created, finished those that have ended, posted the
\* ResponseMessage(done=True) not yet handled, entries the ChatEntry widgets
\* added; message is the argument of the latest task, submitted and last the
\* number of submissions and what the latest one did, errors the done messages
\* posted with an error text. The text side of a response: current_response and
\* pending_messages of the application, queue the ResponseMessage objects posted
\* and not yet handled, streaming whether chat_area._current_streaming is set,
\* content, buffer and fresh (_last_update still 0.0) the fields of that widget,
\* delivered the arguments on_chunk was called with, shown the text of the
\* Markdown widget that finalize mounts.
NoTui ==
    [session |-> FALSE, is_generating |-> FALSE, message |-> <<>>, tasks |-> 0,
     finished |-> 0, posted |-> 0, errors |-> 0, entries |-> 0, submitted |-> 0,
     last |-> "none",
     current_response |-> <<>>, pending_messages |-> 0, queue |-> <<>>,
     streaming |-> FALSE, content |-> <<>>, buffer |-> <<>>, fresh |-> TRUE,
     delivered |-> <<>>, shown |-> <<>>]

\* Session.__init__ and _initialize_system_prompt, awaited by init(): history is
\* assigned only inside `if skills_dir:`
InitialHistory(cfg) ==
    IF cfg.skills_dir
    THEN <<Message("system",
                   IF cfg.skills_prompt # <<>>
                   THEN STR_system \o <<"\n", "\n">> \o cfg.skills_prompt
                   ELSE STR_system,
                   NoToolCalls, NoneVal)>>
    ELSE <<>>

Configs ==
    {[skills_dir |-> FALSE, skills_prompt |-> <<>>],
     [skills_dir |-> TRUE, skills_prompt |-> <<>>],
     [skills_dir |-> TRUE, skills_prompt |-> STR_skills]}

FILE_f == WORKDIR \o <<"/", "f">>
InitialFiles == {(FILE_f :> <<"a", " ", "a">>)}

InitWith(configs, files) ==
    /\ config \in configs
    /\ history = InitialHistory(config)
    /\ fs \in files
    /\ pc = "idle"
    /\ outcome = ""
    /\ request = <<>>
    /\ outstanding = 0
    /\ acc = NewAcc
    /\ turn = <<>>
    /\ message = NoMessage
    /\ idx = 0
    /\ args = PyNone
    /\ result = <<>>
    /\ output = <<>>
    /\ on_chunk = FALSE
    /\ calls = <<>>
    /\ TOOLS = TOOLS_registry
    /\ tools_sent = <<>>
    /\ cli = NoCli
    /\ tui = NoTui
    /\ chats = 0
    /\ requests = 0
    /\ chunks = 0

Init == InitWith(Configs, InitialFiles)

\* mutant of Raise: the failed round is tried again instead of ending the call
RaiseThenRetry(error) ==
    /\ pc' = "loop"
    /\ outcome' = error
    /\ acc' = NewAcc
    /\ message' = NoMessage
    /\ idx' = 0

\* an exception leaves chat: the locals of the call are gone
Raise(error) ==
    /\ pc' = "idle"
    /\ outcome' = error
    /\ acc' = NewAcc
    /\ message' = NoMessage
    /\ idx' = 0

\* mutant of HistoryAppend: an assistant message takes the place of the message
\* before it
HistoryAppendOverLast(h, m) ==
    IF m.role = "assistant" /\ h # <<>> THEN [h EXCEPT ![Len(h)] = m] ELSE Append(h, m)

\* self.history.append(message), lines 56, 96 and 105: the only writes chat makes
\* to the transcript.  The ToolCall objects of an assistant message are those of
\* the turn's tool_calls_map, which is written only while the stream is read, so
\* they are no longer written once the message exists.
HistoryAppend(h, m) == Append(h, m)

\* mutant of UserMessage: the input is appended as a system message
UserMessageAsSystem(user_input) == Message("system", user_input, NoToolCalls, NoneVal)

\* line 56: Message(role="user", content=user_input)
UserMessage(user_input) == Message("user", user_input, NoToolCalls, NoneVal)

\* chat, line 56: the user message is appended and the loop entered
Chat(user_input, callback) ==
    /\ pc = "idle"
    /\ chats < MaxChats
    /\ on_chunk' = callback
    /\ history' = HistoryAppend(history, UserMessage(user_input))
    /\ pc' = "loop"
    /\ outcome' = ""
    /\ chats' = chats + 1
    /\ UNCHANGED <<config, TOOLS, tools_sent, cli, tui, output, calls, fs, request, outstanding, acc, turn, message, idx, args,
                   result, requests, chunks>>

\* mutant of RequestTools: the request is made without the tools
RequestNoTools(registry) == <<>>

\* line 64: tools=TOOLS
RequestTools(registry) == registry

\* mutant of RequestMessages: only the latest message is sent
RequestLatestMessage(h) == <<MessageToDict(h[Len(h)])>>

\* line 61: messages=[_message_to_dict(m) for m in self.history]
RequestMessages(h) == [i \in 1..Len(h) |-> MessageToDict(h[i])]

\* lines 59-66: the request is issued with the transcript as it stands
IssueRequest ==
    /\ pc = "loop"
    /\ requests < MaxRequests
    /\ request' = RequestMessages(history)
    /\ tools_sent' = RequestTools(TOOLS)
    /\ outstanding' = outstanding + 1
    /\ requests' = requests + 1
    /\ pc' = "create"
    /\ UNCHANGED <<config, TOOLS, cli, tui, output, on_chunk, calls, history, fs, outcome, acc, turn, message, idx, args,
                   result, chats, chunks>>

\* the await of line 59 returns the stream; lines 67-69 start the accumulator
CreateReturns ==
    /\ pc = "create"
    /\ acc' = NewAcc
    /\ turn' = <<>>
    /\ calls' = <<>>
    /\ pc' = "stream"
    /\ UNCHANGED <<config, TOOLS, tools_sent, cli, tui, output, on_chunk, history, fs, outcome, request, outstanding, message,
                   idx, args, result, chats, requests, chunks>>

\* the request fails: nothing catches the error inside chat
CreateFails ==
    /\ pc = "create"
    /\ Raise("TransportError")
    /\ outstanding' = outstanding - 1
    /\ UNCHANGED <<config, TOOLS, tools_sent, cli, tui, output, on_chunk, calls, history, fs, request, turn, args, result, chats, requests,
                   chunks>>

\* mutant of CallbackArgument: the callback is given the text accumulated so far
CallbackCumulative(full_content, content) == full_content \o content

\* line 75: what on_chunk is called with, the delta's own text
CallbackArgument(full_content, content) == content

\* lines 72-75: the callback is called when the delta has text and one is registered
OnChunk(log, registered, full_content, content) ==
    IF content # <<>> /\ registered
    THEN Append(log, CallbackArgument(full_content, content))
    ELSE log

\* one iteration of `async for chunk in stream` (lines 70-94); a TypeError of the
\* accumulator leaves chat like any other exception
StreamChunk(d, max) ==
    /\ pc = "stream"
    /\ chunks < max
    /\ chunks' = chunks + 1
    /\ turn' = Append(turn, d)
    /\ calls' = OnChunk(calls, on_chunk, acc.full_content, d.content)
    /\ LET r == ApplyDelta(acc, d)
       IN  IF r.raised
           THEN /\ Raise("TypeError")
                /\ outstanding' = outstanding - 1
           ELSE /\ acc' = r.acc
                /\ UNCHANGED <<pc, outcome, message, idx, outstanding>>
    /\ UNCHANGED <<config, TOOLS, tools_sent, cli, tui, output, on_chunk, history, fs, request, args, result, chats, requests>>

\* the stream breaks while it is read
StreamFails ==
    /\ pc = "stream"
    /\ Raise("TransportError")
    /\ outstanding' = outstanding - 1
    /\ UNCHANGED <<config, TOOLS, tools_sent, cli, tui, output, on_chunk, calls, history, fs, request, turn, args, result, chats, requests,
                   chunks>>

\* mutant of AssistantMessage: tool_calls is set to the list on every turn
AssistantMessageAlwaysList(a) ==
    Message("assistant", a.full_content, ToolCallList(a.tool_calls_map), NoneVal)

\* line 95: the assistant message of the turn
AssistantMessage(a) ==
    Message("assistant", a.full_content,
            IF a.has_tool_calls THEN ToolCallList(a.tool_calls_map) ELSE NoToolCalls,
            NoneVal)

\* mutant of EntersToolLoop: the flag alone decides
EntersOnFlag(a, m) == a.has_tool_calls

\* mutant of EntersToolLoop: the tool calls of a turn are never run
NeverEntersToolLoop(a, m) == FALSE

\* line 97: `has_tool_calls and message.tool_calls`
EntersToolLoop(a, m) == a.has_tool_calls /\ ~m.tool_calls.isNone /\ m.tool_calls.list # <<>>

\* the stream ends (lines 95-97, 109): the assistant message is appended, then
\* the tool calls are run or chat returns
StreamEnds ==
    /\ pc = "stream"
    /\ LET m == AssistantMessage(acc)
       IN  /\ history' = HistoryAppend(history, m)
           /\ IF EntersToolLoop(acc, m)
              THEN /\ message' = m
                   /\ idx' = 1
                   /\ pc' = "tools"
                   /\ outcome' = outcome
              ELSE /\ message' = NoMessage
                   /\ idx' = 0
                   /\ pc' = "idle"
                   /\ outcome' = "returned"
    /\ acc' = NewAcc
    /\ outstanding' = outstanding - 1
    /\ UNCHANGED <<config, TOOLS, tools_sent, cli, tui, output, on_chunk, calls, fs, request, turn, args, result, chats, requests, chunks>>

\* line 100: the arguments of the next tool call are parsed, run_tool is awaited
ToolStarts ==
    /\ pc = "tools"
    /\ LET p == ParseToolArguments(message.tool_calls.list[idx])
       IN  IF p.raised
           THEN /\ Raise("TypeError")
                /\ UNCHANGED <<args, turn>>
           ELSE /\ args' = p.args
                /\ pc' = "run_tool"
                /\ UNCHANGED <<outcome, acc, turn, message, idx>>
    /\ UNCHANGED <<config, TOOLS, tools_sent, cli, tui, output, on_chunk, calls, history, fs, request, outstanding, result, chats,
                   requests, chunks>>

\* mutant of AfterToolCall: the next request is made after the first tool call
AfterToolCallContinueEarly(i, n) == "loop"

\* lines 99, 107-108: after a tool call the for loop goes on to the next call, and
\* after the last one the while loop to the next request
AfterToolCall(i, n) == IF i < n THEN "tools" ELSE "loop"

\* mutant of ToolMessage: the tool message does not carry the call's id
ToolMessageWithoutId(toolcall, text) == Message("tool", text, NoToolCalls, NoneVal)

\* line 105: the tool message that answers a tool call
ToolMessage(toolcall, text) == Message("tool", text, NoToolCalls, toolcall.id)

\* lines 101-105: run_tool returns and its result is appended as a tool message
ToolReturns(env) ==
    /\ pc = "run_tool"
    /\ LET toolcall == message.tool_calls.list[idx]
           r == run_tool(toolcall.name, args, WORKDIR, fs, env)
       IN  IF r.raised
           THEN /\ Raise("Exception")
                /\ UNCHANGED <<history, fs, result, output, turn>>
           ELSE /\ result' = r.text
                /\ output' = r.raw
                /\ fs' = r.fs
                /\ history' = HistoryAppend(history, ToolMessage(toolcall, r.text))
                /\ pc' = AfterToolCall(idx, Len(message.tool_calls.list))
                /\ idx' = IF pc' = "tools" THEN idx + 1 ELSE 0
                /\ message' = IF pc' = "tools" THEN message ELSE NoMessage
                /\ UNCHANGED <<outcome, acc, turn>>
    /\ UNCHANGED <<config, TOOLS, tools_sent, cli, tui, on_chunk, calls, request, outstanding, args, chats, requests, chunks>>

\* clear_history, line 114: one system message holding get_system_prompt()
ClearedHistory(cfg) == <<Message("system", STR_system, NoToolCalls, NoneVal)>>

\* clear_history(), called between chat calls
ClearHistory ==
    /\ pc = "idle"
    /\ history' = ClearedHistory(config)
    /\ UNCHANGED <<config, fs, pc, outcome, request, outstanding, acc, turn, message,
                   idx, args, result, output, on_chunk, calls, TOOLS, tools_sent, cli,
                   tui, chats, requests, chunks>>

\* ------------------------------------------------------ the environment
\* what a shell run does: raises (the working directory cannot be entered), or
\* ends with an exit code, some stdout and some stderr
BashOutcomes ==
    {[raises |-> TRUE, returncode |-> 0, stdout |-> <<>>, stderr |-> <<>>],
     [raises |-> FALSE, returncode |-> 0, stdout |-> <<"o", "\n">>, stderr |-> <<"e">>],
     [raises |-> FALSE, returncode |-> 1, stdout |-> <<"o", "\n">>, stderr |-> <<"e">>],
     [raises |-> FALSE, returncode |-> 1, stdout |-> <<>>, stderr |-> <<"e", "\n">>],
     [raises |-> FALSE, returncode |-> 0, stdout |-> <<>>, stderr |-> <<>>],
     [raises |-> FALSE, returncode |-> 1, stdout |-> <<>>, stderr |-> <<>>]}
\* what fetch_url and extract do: raise, or give a text or nothing
FetchOutcomes ==
    {[raises |-> TRUE, result |-> <<>>],
     [raises |-> FALSE, result |-> <<>>],
     [raises |-> FALSE, result |-> <<"m">>]}
ToolEnvs == [bash : BashOutcomes, fetch : FetchOutcomes]
\* in the chat specification one outcome of fetch_url is enough
ChatToolEnvs == [bash : BashOutcomes, fetch : {[raises |-> FALSE, result |-> <<"m">>]}]

Frag(id, type, name, arguments) ==
    [id |-> id, type |-> type, name |-> name, arguments |-> arguments]
\* the name of a fragment that carries none: None, which an f-string prints as None
STR_None == <<"N","o","n","e">>
STR_x == <<"x">>

JSON_write == <<LBrace, JStr(STR_path), Colon, JStr(<<"f">>), Comma,
                JStr(STR_content), Colon, JStr(<<"b">>), RBrace>>
JSON_path_open == <<LBrace, JStr(STR_path), Colon, JStr(<<"f">>)>>
JSON_close == <<RBrace>>
JSON_command == <<LBrace, JStr(STR_command), Colon, JStr(<<"c">>), RBrace>>

Delta(content, tool_calls) == [content |-> content, tool_calls |-> tool_calls]
\* the deltas the model's streams deliver in the chat specification
ChatDeltas ==
    {Delta(<<"h">>, <<>>),
     Delta(<<>>, <<Frag("A", "function", STR_read_file, NoArgs)>>),
     Delta(<<>>, <<Frag("A", "function", STR_write_file, ArgText(JSON_write))>>),
     Delta(<<>>, <<Frag("B", "function", STR_read_file, ArgText(JSON_path_open))>>),
     Delta(<<>>, <<Frag(NoneVal, NoneVal, STR_None, ArgText(JSON_close))>>),
     Delta(<<>>, <<Frag("A", "function", STR_x, ArgText(<<>>)),
                   Frag("B", NoneVal, STR_bash, ArgText(JSON_command))>>)}

UserInputs == {<<"u">>}

Next ==
    \/ \E u \in UserInputs : Chat(u, TRUE)
    \/ IssueRequest
    \/ CreateReturns
    \/ CreateFails
    \/ \E d \in ChatDeltas : StreamChunk(d, MaxChunks)
    \/ StreamFails
    \/ StreamEnds
    \/ ToolStarts
    \/ \E env \in ChatToolEnvs : ToolReturns(env)

Spec == Init /\ [][Next]_vars

\* ------------------------------------------------- the fair specification
\* The chat loop with what its progress rests on: the coroutine takes its own
\* steps (the request is issued, the next tool call is started), and what it
\* awaits comes back: the request returns a stream or fails, a stream ends or
\* breaks, a tool execution returns.  Nothing obliges the caller to call chat.
InitLive == InitWith({[skills_dir |-> TRUE, skills_prompt |-> STR_skills]}, InitialFiles)

\* the deltas of its streams: text, a complete tool call, and a tool call whose
\* arguments never come
LiveDeltas ==
    {Delta(<<"h">>, <<>>),
     Delta(<<>>, <<Frag("A", "function", STR_write_file, ArgText(JSON_write))>>),
     Delta(<<>>, <<Frag("B", "function", STR_read_file, NoArgs)>>)}
LiveToolEnvs ==
    [bash : {[raises |-> FALSE, returncode |-> 0, stdout |-> <<>>, stderr |-> <<>>]},
     fetch : {[raises |-> FALSE, result |-> <<"m">>]}]

NextLive ==
    \/ \E u \in UserInputs : Chat(u, TRUE)
    \/ IssueRequest
    \/ CreateReturns
    \/ CreateFails
    \/ \E d \in LiveDeltas : StreamChunk(d, MaxChunks)
    \/ StreamFails
    \/ StreamEnds
    \/ ToolStarts
    \/ \E env \in LiveToolEnvs : ToolReturns(env)

SpecLive ==
    /\ InitLive
    /\ [][NextLive]_vars
    /\ WF_vars(IssueRequest)
    /\ WF_vars(CreateReturns \/ CreateFails)
    /\ WF_vars(StreamEnds \/ StreamFails)
    /\ WF_vars(ToolStarts)
    /\ WF_vars(\E env \in LiveToolEnvs : ToolReturns(env))

\* ---------------------------------------------- the session specification
\* The operations of a session in any order: chat calls with different inputs,
\* rounds with and without a tool call, and clear_history between the calls.
SessionInputs == {<<"u">>, <<"v">>}
SessionDeltas ==
    {Delta(<<"h">>, <<>>),
     Delta(<<>>, <<Frag("A", "function", STR_write_file, ArgText(JSON_write))>>)}

NextSession ==
    \/ \E u \in SessionInputs : Chat(u, TRUE)
    \/ IssueRequest
    \/ CreateReturns
    \/ CreateFails
    \/ \E d \in SessionDeltas : StreamChunk(d, MaxChunks)
    \/ StreamEnds
    \/ ToolStarts
    \/ \E env \in LiveToolEnvs : ToolReturns(env)
    \/ ClearHistory

SpecSession == Init /\ [][NextSession]_vars

\* ----------------------------------------------------- cli.py, the loop
\* cli.pc is "prompt" while main() is in its `while True` loop (at the input
\* prompt or awaiting the chat call it made) and "ended" once main() is left;
\* cli.handled counts the chat calls whose end the loop has seen, cli.reported
\* the error reports printed.
SessionVars ==
    <<config, history, fs, pc, outcome, request, outstanding, acc, turn, message,
      idx, args, result, output, on_chunk, calls, TOOLS, tools_sent, chats, requests,
      chunks>>

\* lines 35-43: a line is read and given to session.chat with onChunk
CliInput(user_input) ==
    /\ cli.pc = "prompt"
    /\ cli.handled = chats
    /\ Chat(user_input, TRUE)

\* lines 36-39, 45-46: an empty line, `exit` or end of input leaves the loop
CliExit ==
    /\ cli.pc = "prompt"
    /\ cli.handled = chats
    /\ cli' = [cli EXCEPT !.pc = "ended"]
    /\ UNCHANGED <<SessionVars, tui>>

\* line 44: the awaited chat call returned, the loop goes round
CliChatReturns ==
    /\ cli.pc = "prompt"
    /\ cli.handled < chats
    /\ pc = "idle"
    /\ outcome = "returned"
    /\ cli' = [cli EXCEPT !.handled = @ + 1]
    /\ UNCHANGED <<SessionVars, tui>>

\* lines 45-49 and 51-54: the awaited chat call raised; the loop catches only
\* EOFError and KeyboardInterrupt, so the exception leaves the loop and main(),
\* and is printed once where asyncio.run(main()) was called
CliChatRaises ==
    /\ cli.pc = "prompt"
    /\ cli.handled < chats
    /\ pc = "idle"
    /\ outcome \notin {"", "returned"}
    /\ cli' = [pc |-> "ended", handled |-> cli.handled + 1, reported |-> cli.reported + 1]
    /\ UNCHANGED <<SessionVars, tui>>

InitCli ==
    /\ config = [skills_dir |-> TRUE, skills_prompt |-> STR_skills]
    /\ history = InitialHistory(config)
    /\ fs \in InitialFiles
    /\ pc = "idle"
    /\ outcome = ""
    /\ request = <<>>
    /\ outstanding = 0
    /\ acc = NewAcc
    /\ turn = <<>>
    /\ message = NoMessage
    /\ idx = 0
    /\ args = PyNone
    /\ result = <<>>
    /\ output = <<>>
    /\ on_chunk = FALSE
    /\ calls = <<>>
    /\ TOOLS = TOOLS_registry
    /\ tools_sent = <<>>
    /\ cli = [pc |-> "prompt", handled |-> 0, reported |-> 0]
    /\ tui = NoTui
    /\ chats = 0
    /\ requests = 0
    /\ chunks = 0

NextCli ==
    \/ \E u \in SessionInputs : CliInput(u)
    \/ CliExit
    \/ CliChatReturns
    \/ CliChatRaises
    \/ IssueRequest
    \/ CreateReturns
    \/ CreateFails
    \/ \E d \in SessionDeltas : StreamChunk(d, MaxChunks)
    \/ StreamFails
    \/ StreamEnds
    \/ ToolStarts
    \/ \E env \in LiveToolEnvs : ToolReturns(env)

SpecCli == InitCli /\ [][NextCli]_vars

\* ------------------------------------------------------ tui.py, GemCodeApp
MaxSubmits == 3

\* str.strip() on the texts of the model: blanks at both ends are removed
RECURSIVE LStrip(_)
LStrip(t) == IF t # <<>> /\ Head(t) = " " THEN LStrip(Tail(t)) ELSE t
RECURSIVE RStrip(_)
RStrip(t) == IF t # <<>> /\ t[Len(t)] = " " THEN RStrip(SubSeq(t, 1, Len(t) - 1)) ELSE t
Strip(t) == RStrip(LStrip(t))

\* mutant of Yielded: chat can be suspended anywhere
YieldsAnywhere(at) == TRUE

\* The handlers of the application and the chat task share one event loop: a
\* handler runs only while chat is suspended in an await that yields, which is
\* `await ...completions.create(...)` (line 59) or `async for chunk in stream`
\* (line 70), or while no chat call runs. `await run_tool(...)` (line 101) never
\* yields: run_tool and the five tools are coroutines without an await that
\* suspends (subprocess.run, open and fetch_url block).
Yielded(at) == at \in {"idle", "create", "stream"}

\* on_mount: the session is created and its initialisation awaited
TuiMount ==
    /\ Yielded(pc)
    /\ ~tui.session
    /\ tui' = [tui EXCEPT !.session = TRUE]
    /\ UNCHANGED <<SessionVars, cli>>

\* mutant of SubmissionIgnored: only the missing session is looked at
IgnoredOnlyWithoutSession(app) == ~app.session

\* on_input_area_submitted, line 862: `if not self.session or self._is_generating`
SubmissionIgnored(app) == ~app.session \/ app.is_generating

\* on_input_area_submitted: the early returns, else the user entry is shown,
\* _is_generating set and the task created
TuiSubmit(value) ==
    /\ Yielded(pc)
    /\ tui.submitted < MaxSubmits
    /\ tui.tasks < MaxChats
    /\ tui' =
          IF SubmissionIgnored(tui)
          THEN [tui EXCEPT !.submitted = @ + 1,
                           !.last = IF tui.session THEN "generating" ELSE "no session"]
          ELSE IF Strip(value) = <<>>
               THEN [tui EXCEPT !.submitted = @ + 1, !.last = "empty"]
               ELSE [tui EXCEPT !.submitted = @ + 1, !.last = "accepted",
                                !.entries = @ + 1, !.is_generating = TRUE,
                                !.message = Strip(value), !.tasks = @ + 1]
    /\ UNCHANGED <<SessionVars, cli>>

\* _generate_response, line 911: the task calls session.chat with on_chunk
TuiTaskRuns ==
    /\ tui.tasks > chats
    /\ Chat(tui.message, TRUE)

\* _generate_response, lines 913-918: chat returned or raised; in both cases
\* ResponseMessage(done=True) is posted
TuiTaskEnds ==
    /\ tui.finished < chats
    /\ pc = "idle"
    /\ outcome # ""
    /\ tui' = [tui EXCEPT !.finished = @ + 1, !.posted = @ + 1,
                          !.errors = IF outcome = "returned" THEN @ ELSE @ + 1]
    /\ UNCHANGED <<SessionVars, cli>>

\* mutant of AfterDone: the done message leaves _is_generating as it is
AfterDoneStillGenerating(app) == [app EXCEPT !.posted = @ - 1]

\* on_response_message, lines 934-944: `if message.done:` ... _is_generating = False
AfterDone(app) == [app EXCEPT !.posted = @ - 1, !.is_generating = FALSE]

\* on_response_message for a message with done=True
TuiResponseDone ==
    /\ Yielded(pc)
    /\ tui.posted > 0
    /\ tui' = AfterDone(tui)
    /\ UNCHANGED <<SessionVars, cli>>

\* action_clear (Ctrl+L, the Clear button): the chat area is emptied and, when
\* the session exists, session.clear_history() is called, whatever chat is doing
TuiClear ==
    /\ Yielded(pc)
    /\ tui' = [tui EXCEPT !.entries = 0]
    /\ history' = IF tui.session THEN ClearedHistory(config) ELSE history
    /\ (tui' # tui \/ history' # history)
    /\ UNCHANGED <<config, fs, pc, outcome, request, outstanding, acc, turn, message,
                   idx, args, result, output, on_chunk, calls, TOOLS, tools_sent, cli,
                   chats, requests, chunks>>

TuiInputs == {<<"u">>, <<" ", "v", " ">>, <<" ">>}

InitTui == InitWith({[skills_dir |-> TRUE, skills_prompt |-> STR_skills]}, InitialFiles)

NextTui ==
    \/ TuiMount
    \/ \E v \in TuiInputs : TuiSubmit(v)
    \/ TuiTaskRuns
    \/ TuiTaskEnds
    \/ TuiResponseDone
    \/ TuiClear
    \/ IssueRequest
    \/ CreateReturns
    \/ CreateFails
    \/ \E d \in SessionDeltas : StreamChunk(d, MaxChunks)
    \/ StreamFails
    \/ StreamEnds
    \/ ToolStarts
    \/ \E env \in LiveToolEnvs : ToolReturns(env)

SpecTui == InitTui /\ [][NextTui]_vars

\* ------------------------------------- tui.py, the text of one response
BATCH_SIZE == 20

\* chunk.endswith(('.', '!', '?', '\n'))
EndsSentence(chunk) ==
    chunk # <<>> /\ chunk[Len(chunk)] \in {".", "!", "?", "\n"}

ResponseMessage(chunk, done) == [chunk |-> chunk, done |-> done]

\* _generate_response.on_chunk, lines 897-908: the whole response so far is
\* posted when enough chunks are pending, the chunk is long or ends a sentence
OnChunkClosure(app, chunk) ==
    LET response == app.current_response \o chunk
        pending == app.pending_messages + 1
    IN  IF pending >= BATCH_SIZE \/ Len(chunk) > 10 \/ EndsSentence(chunk)
        THEN [app EXCEPT !.current_response = response, !.pending_messages = 0,
                         !.queue = Append(@, ResponseMessage(response, FALSE)),
                         !.delivered = Append(@, chunk)]
        ELSE [app EXCEPT !.current_response = response, !.pending_messages = pending,
                         !.delivered = Append(@, chunk)]

\* OptimizedStreamingWidget.flush
flush(app) ==
    IF app.buffer # <<>>
    THEN [app EXCEPT !.content = @ \o app.buffer, !.buffer = <<>>, !.fresh = FALSE]
    ELSE app

\* OptimizedStreamingWidget.append_text; elapsed is whether
\* time.monotonic() - _last_update >= BATCH_INTERVAL
append_text(app, text, elapsed) ==
    LET buffered == [app EXCEPT !.buffer = @ \o text]
    IN  IF Len(buffered.buffer) >= BATCH_SIZE \/ elapsed
        THEN flush(buffered)
        ELSE buffered

\* on_response_message, lines 927-931: new_content[len(current_content):] with
\* current_content the widget's _content
NewText(app, chunk) == SubSeq(chunk, Len(app.content) + 1, Len(chunk))

\* on_response_message, lines 925-932
UpdateStreaming(app, m, elapsed) ==
    IF m.chunk # <<>> /\ app.streaming /\ Len(m.chunk) > Len(app.content)
    THEN append_text(app, NewText(app, m.chunk), elapsed)
    ELSE app

\* on_response_message, lines 934-944: flush_streaming, finish_streaming
\* (finalize flushes and mounts Markdown(_content)), _is_generating = False
FinishStreaming(app) ==
    IF app.streaming
    THEN [flush(app) EXCEPT !.shown = flush(app).content, !.streaming = FALSE,
                            !.is_generating = FALSE]
    ELSE [app EXCEPT !.is_generating = FALSE]

\* session.chat calls on_chunk with a text delta
TuiOnChunk(chunk) ==
    /\ tui.finished < tui.tasks
    /\ Len(tui.delivered) < MaxChunks
    /\ tui' = OnChunkClosure(tui, chunk)
    /\ UNCHANGED <<SessionVars, cli>>

\* line 914: session.chat returned, the final message is posted
TuiChatReturned ==
    /\ tui.finished < tui.tasks
    /\ tui' = [tui EXCEPT !.finished = @ + 1, !.posted = @ + 1,
                          !.queue = Append(@, ResponseMessage(tui.current_response, TRUE))]
    /\ UNCHANGED <<SessionVars, cli>>

\* on_response_message for the oldest posted message; a widget never flushed
\* has _last_update 0.0, against which the monotonic clock has always elapsed
TuiResponseMessage(elapsed) ==
    /\ tui.queue # <<>>
    /\ tui.fresh => elapsed
    /\ LET m == Head(tui.queue)
           popped == [tui EXCEPT !.queue = Tail(@)]
           updated == UpdateStreaming(popped, m, elapsed)
       IN  tui' = IF m.done
                  THEN [FinishStreaming(updated) EXCEPT !.posted = @ - 1]
                  ELSE updated
    /\ UNCHANGED <<SessionVars, cli>>

\* the texts on_chunk is called with: short, ending a sentence, ending a line,
\* longer than ten characters
ChunkTexts ==
    {<<"a">>, <<"b", ".">>, <<"c", "\n">>,
     <<"l", "o", "n", "g", "e", "r", " ", "t", "e", "x", "t">>}

\* on_input_area_submitted has accepted a submission: the streaming widget is
\* started and the task created
Generating ==
    [NoTui EXCEPT !.session = TRUE, !.is_generating = TRUE, !.message = <<"u">>,
                  !.tasks = 1, !.entries = 1, !.submitted = 1, !.last = "accepted",
                  !.streaming = TRUE]

InitStream ==
    /\ config = [skills_dir |-> TRUE, skills_prompt |-> STR_skills]
    /\ history = InitialHistory(config)
    /\ fs \in InitialFiles
    /\ pc = "idle"
    /\ outcome = ""
    /\ request = <<>>
    /\ outstanding = 0
    /\ acc = NewAcc
    /\ turn = <<>>
    /\ message = NoMessage
    /\ idx = 0
    /\ args = PyNone
    /\ result = <<>>
    /\ output = <<>>
    /\ on_chunk = TRUE
    /\ calls = <<>>
    /\ TOOLS = TOOLS_registry
    /\ tools_sent = <<>>
    /\ cli = NoCli
    /\ tui = Generating
    /\ chats = 0
    /\ requests = 0
    /\ chunks = 0

NextStream ==
    \/ \E chunk \in ChunkTexts : TuiOnChunk(chunk)
    \/ TuiChatReturned
    \/ \E elapsed \in BOOLEAN : TuiResponseMessage(elapsed)

SpecStream == InitStream /\ [][NextStream]_vars

\* The same application with one input text and the streams of SpecLive, under
\* the scheduling of the event loop: a task that can run is run, a posted
\* message is handled, and the provider and the tools answer.
NextTuiLive ==
    \/ TuiMount
    \/ \E v \in UserInputs : TuiSubmit(v)
    \/ TuiTaskRuns
    \/ TuiTaskEnds
    \/ TuiResponseDone
    \/ IssueRequest
    \/ CreateReturns
    \/ CreateFails
    \/ \E d \in LiveDeltas : StreamChunk(d, MaxChunks)
    \/ StreamFails
    \/ StreamEnds
    \/ ToolStarts
    \/ \E env \in LiveToolEnvs : ToolReturns(env)

SpecTuiLive ==
    /\ InitTui
    /\ [][NextTuiLive]_vars
    /\ WF_vars(TuiTaskRuns)
    /\ WF_vars(IssueRequest)
    /\ WF_vars(CreateReturns \/ CreateFails)
    /\ WF_vars(StreamEnds \/ StreamFails)
    /\ WF_vars(ToolStarts)
    /\ WF_vars(\E env \in LiveToolEnvs : ToolReturns(env))
    /\ WF_vars(TuiTaskEnds)
    /\ WF_vars(TuiResponseDone)

\* ------------------------------------------ the accumulator specification
\* One fragment per delta, from a wider set of fragments: calls A and B opened
\* or continued with their id, with no argument text, empty text or a piece of
\* text, and fragments without an id.
AccFragments ==
    {Frag("A", "function", STR_bash, a) : a \in {NoArgs, ArgText(<<>>), ArgText(<<LBrace>>)}}
    \cup {Frag("B", "function", STR_read_file, a) : a \in {NoArgs, ArgText(<<RBrace>>)}}
    \cup {Frag(NoneVal, NoneVal, STR_None, a) : a \in {NoArgs, ArgText(<<LBrace>>)}}
    \cup {Frag("A", NoneVal, STR_x, ArgText(<<RBrace>>))}
AccDeltas ==
    {Delta(<<>>, <<f>>) : f \in AccFragments}
    \cup {Delta(<<"h">>, <<>>),
          Delta(<<"h">>, <<Frag(NoneVal, NoneVal, STR_None, ArgText(<<LBrace>>))>>)}

InitAcc == InitWith({[skills_dir |-> TRUE, skills_prompt |-> <<>>]}, InitialFiles)

NextAcc ==
    \/ \E u \in UserInputs, callback \in BOOLEAN : Chat(u, callback)
    \/ IssueRequest
    \/ CreateReturns
    \/ \E d \in AccDeltas : StreamChunk(d, MaxTurnChunks)
    \/ StreamEnds

SpecAcc == InitAcc /\ [][NextAcc]_vars

\* ------------------------------------------------ the tool specification
\* One tool call of a round is about to be parsed and run: every tool name of
\* the registry and an unknown one, with argument payloads of every shape.
RegisteredTools == {STR_bash, STR_read_file, STR_write_file, STR_StrReplaceFile, STR_fetch_url}
\* a name as the model may send it, with a newline character at its end
STR_x_newline == <<"x", "\n">>
ToolNames == RegisteredTools \cup {STR_x, STR_x_newline}

JObject1(k, v) == <<LBrace, JStr(k), Colon>> \o v \o <<RBrace>>
JObject2(k1, v1, k2, v2) ==
    <<LBrace, JStr(k1), Colon>> \o v1 \o <<Comma, JStr(k2), Colon>> \o v2 \o <<RBrace>>
JText(t) == <<JStr(t)>>
JOne == <<JNum(<<"1">>)>>
JEdit(target, replacement) == JObject2(STR_target, JText(target), STR_replacement, JText(replacement))
JSON_two_edits ==
    <<LBracket>> \o JEdit(<<"a">>, <<"b">>) \o <<Comma>> \o JEdit(<<"a">>, <<"c">>) \o <<RBracket>>
\* a second edit whose target exists only once the first edit is made, and a
\* third with an empty target
JSON_chained_edits ==
    <<LBracket>> \o JEdit(<<"a">>, <<"a", "a">>) \o <<Comma>> \o JEdit(<<"a", "a">>, <<"c">>)
        \o <<Comma>> \o JEdit(<<>>, <<"x">>) \o <<RBracket>>

\* a first edit whose target the files do not hold, followed by one they do
JSON_absent_then_present ==
    <<LBracket>> \o JEdit(<<"z">>, <<"y">>) \o <<Comma>> \o JEdit(<<"a">>, <<"b">>) \o <<RBracket>>
\* an edit that applies, followed by an element that is not a map
JSON_edit_then_number ==
    <<LBracket>> \o JEdit(<<"a">>, <<"b">>) \o <<Comma>> \o JOne \o <<RBracket>>

\* the files a tool call finds: text with Unix and with Windows line endings
ToolFiles == InitialFiles \cup {(FILE_f :> <<"a", "\r", "\n", "a">>)}

ToolPayloads ==
    {NoArgs, ArgText(<<>>), ArgText(JOne), ArgText(<<LBracket, RBracket>>),
     ArgText(<<LBrace, RBrace>>), ArgText(JSON_path_open),
     ArgText(JObject1(STR_path, JText(<<"f">>))),
     ArgText(JObject1(STR_path, JText(<<"g">>))),
     ArgText(JObject1(STR_path, JOne)),
     ArgText(JObject2(STR_path, JText(<<"f">>), STR_content, JText(<<"b", "\n">>))),
     ArgText(JObject2(STR_path, JText(<<"f">>), STR_content, JOne)),
     ArgText(JObject2(STR_path, JText(<<"d", "/", "g">>), STR_content, JText(<<"b">>))),
     ArgText(JObject2(STR_path, JText(<<"f">>), STR_edits, JSON_two_edits)),
     ArgText(JObject2(STR_path, JText(<<"f">>), STR_edits, JSON_chained_edits)),
     ArgText(JObject2(STR_path, JText(<<"f">>), STR_edits, <<LBracket>> \o JOne \o <<RBracket>>)),
     ArgText(JObject2(STR_path, JText(<<"f">>), STR_edits, JOne)),
     ArgText(JObject2(STR_path, JText(<<"f">>), STR_edits, JText(<<>>))),
     ArgText(JObject2(STR_path, JText(<<"g">>), STR_edits, <<LBracket, RBracket>>)),
     ArgText(JObject2(STR_path, JText(<<"f">>), STR_edits, <<LBracket, RBracket>>)),
     ArgText(JObject2(STR_path, JText(<<"f">>), STR_edits, JSON_absent_then_present)),
     ArgText(JObject2(STR_path, JText(<<"f">>), STR_edits, JSON_edit_then_number)),
     ArgText(JObject1(STR_command, JText(<<"c">>))),
     ArgText(JObject1(STR_command, JOne)),
     ArgText(JObject1(STR_url, JText(<<"u">>)))}

\* the round of a first chat call whose assistant message carries call c
InitTool ==
    \E name \in ToolNames, payload \in ToolPayloads :
        LET m == Message("assistant", <<>>,
                         ToolCallList(<<ToolCall(Frag("A", "function", name, payload))>>),
                         NoneVal)
        IN  /\ config = [skills_dir |-> TRUE, skills_prompt |-> <<>>]
            /\ history = InitialHistory(config)
                           \o <<Message("user", <<"u">>, NoToolCalls, NoneVal), m>>
            /\ fs \in ToolFiles
            /\ pc = "tools"
            /\ outcome = ""
            /\ request = <<MessageToDict(history[1]), MessageToDict(history[2])>>
            /\ outstanding = 0
            /\ acc = NewAcc
            /\ turn = <<Delta(<<>>, <<Frag("A", "function", name, payload)>>)>>
            /\ message = m
            /\ idx = 1
            /\ args = PyNone
            /\ result = <<>>
            /\ output = <<>>
            /\ on_chunk = FALSE
            /\ calls = <<>>
            /\ TOOLS = TOOLS_registry
            /\ tools_sent = RequestTools(TOOLS)
            /\ cli = NoCli
            /\ tui = NoTui
            /\ chats = 1
            /\ requests = 1
            /\ chunks = 1

NextTool ==
    \/ ToolStarts
    \/ \E env \in ToolEnvs : ToolReturns(env)

SpecTool == InitTool /\ [][NextTool]_vars

\* ----------------------------------------------- the round specification
\* Turns whose one delta opens several complete tool calls: a file is written
\* and then read and edited, a new file is written, edited and read, a text with
\* a Windows line ending is written and read, a call names a tool the registry
\* does not have.
JSON_path(p) == JObject1(STR_path, JText(p))
JSON_path_content(p, c) == JObject2(STR_path, JText(p), STR_content, JText(c))
JSON_path_edits(p, target, replacement) ==
    JObject2(STR_path, JText(p), STR_edits,
             <<LBracket>> \o JEdit(target, replacement) \o <<RBracket>>)
RoundDeltas ==
    {Delta(<<"h">>, <<>>),
     Delta(<<>>, <<Frag("A", "function", STR_write_file, ArgText(JSON_path_content(<<"f">>, <<"b">>))),
                   Frag("B", "function", STR_read_file, ArgText(JSON_path(<<"f">>))),
                   Frag("C", "function", STR_StrReplaceFile,
                        ArgText(JSON_path_edits(<<"f">>, <<"b">>, <<"c">>)))>>),
     Delta(<<>>, <<Frag("A", "function", STR_write_file, ArgText(JSON_path_content(<<"g">>, <<"b">>))),
                   Frag("B", "function", STR_StrReplaceFile,
                        ArgText(JSON_path_edits(<<"g">>, <<"b">>, <<"c">>))),
                   Frag("C", "function", STR_read_file, ArgText(JSON_path(<<"g">>)))>>),
     Delta(<<>>, <<Frag("A", "function", STR_write_file,
                        ArgText(JSON_path_content(<<"f">>, <<"a", "\r", "\n", "b">>))),
                   Frag("B", "function", STR_read_file, ArgText(JSON_path(<<"f">>)))>>),
     Delta(<<>>, <<Frag("A", "function", STR_read_file, ArgText(JSON_path(<<"f">>))),
                   Frag("B", "function", STR_x, ArgText(JSON_path(<<"f">>))),
                   Frag("C", "function", STR_write_file,
                        ArgText(JSON_path_content(<<"f">>, <<"b">>)))>>)}

NextRound ==
    \/ \E u \in UserInputs : Chat(u, TRUE)
    \/ IssueRequest
    \/ CreateReturns
    \/ \E d \in RoundDeltas : StreamChunk(d, MaxChunks)
    \/ StreamEnds
    \/ ToolStarts
    \/ \E env \in LiveToolEnvs : ToolReturns(env)

InitRound == InitWith({[skills_dir |-> TRUE, skills_prompt |-> STR_skills]}, InitialFiles)

SpecRound == InitRound /\ [][NextRound]_vars

\* ------------------------------------------- the formatter specification
\* formatted_tool_output called on its own, on outputs whose length is next to
\* nothing or next to the truncation threshold, with and without newline
\* characters at the end and inside.
\* how far an output's length goes beyond OUTPUT_TRUNCATE_LENGTH (and falls short)
MaxOver == 3
\* newline characters at the end of an output
MaxNewlines == 3

\* an output of n characters followed by k newline characters; the characters
\* differ along the text, and with inner it has newline characters inside
MakeOutput(n, k, inner) ==
    [i \in 1..(n + k) |->
        IF i > n THEN "\n"
        ELSE IF inner /\ i % 5 = 0 THEN "\n"
        ELSE IF i % 2 = 0 THEN "b" ELSE "a"]

FmtLengths ==
    (0..MaxOver)
    \cup ((OUTPUT_TRUNCATE_LENGTH - MaxOver)..(OUTPUT_TRUNCATE_LENGTH + MaxOver))
FmtOutputs ==
    {MakeOutput(n, k, inner) : n \in FmtLengths, k \in 0..MaxNewlines, inner \in BOOLEAN}

InitFmt ==
    /\ config = [skills_dir |-> TRUE, skills_prompt |-> <<>>]
    /\ history = InitialHistory(config)
    /\ fs \in InitialFiles
    /\ pc = "format"
    /\ outcome = ""
    /\ request = <<>>
    /\ outstanding = 0
    /\ acc = NewAcc
    /\ turn = <<>>
    /\ message = NoMessage
    /\ idx = 0
    /\ args = PyNone
    /\ result = <<>>
    /\ output \in FmtOutputs
    /\ on_chunk = FALSE
    /\ calls = <<>>
    /\ TOOLS = TOOLS_registry
    /\ tools_sent = <<>>
    /\ cli = NoCli
    /\ tui = NoTui
    /\ chats = 0
    /\ requests = 0
    /\ chunks = 0

\* formatted_tool_output(output) returns
FormatToolOutput ==
    /\ pc = "format"
    /\ result' = formatted_tool_output(output)
    /\ pc' = "formatted"
    /\ UNCHANGED <<config, TOOLS, tools_sent, cli, tui, history, fs, outcome, request, outstanding, acc, turn,
                   message, idx, args, output, on_chunk, calls, chats, requests, chunks>>

NextFmt == FormatToolOutput

SpecFmt == InitFmt /\ [][NextFmt]_vars

\* ====================================================== claims
TransportErrors == {"TransportError"}

\* the nearest assistant message before position i of a transcript, 0 when none
NearestAssistant(h, i) ==
    IF \E j \in 1..(i - 1) : h[j].role = "assistant"
    THEN CHOOSE j \in 1..(i - 1) :
            /\ h[j].role = "assistant"
            /\ \A k \in (j + 1)..(i - 1) : h[k].role # "assistant"
    ELSE 0

\* C1: every tool message of the transcript carries the id of one of the tool
\* calls of the nearest assistant message before it, and only tool messages lie
\* between the two (no user or system message).
C1_ToolCallIdLinkage ==
    \A i \in 1..Len(history) :
        history[i].role = "tool" =>
            LET j == NearestAssistant(history, i)
            IN  /\ j # 0
                /\ \A k \in (j + 1)..(i - 1) : history[k].role = "tool"
                /\ \E c \in 1..Len(history[j].tool_calls.list) :
                       history[j].tool_calls.list[c].id = history[i].tool_call_id

\* C1 witness: a second chat call has run a tool after a first one did
C1_Witness ==
    /\ chats = 2
    /\ \E i, j \in 1..Len(history) :
          /\ i < j
          /\ history[i].role = "tool"
          /\ history[j].role = "tool"
          /\ \E k \in (i + 1)..(j - 1) : history[k].role = "user"

\* the assistant message at position j is directly followed by one tool message
\* per tool call, in call order, each with the id of its call, and by no more
FollowedByItsResults(h, j) ==
    LET l == h[j].tool_calls.list
    IN  /\ Len(h) >= j + Len(l)
        /\ \A i \in 1..Len(l) :
               /\ h[j + i].role = "tool"
               /\ h[j + i].tool_call_id = l[i].id
        /\ (Len(h) > j + Len(l) => h[j + Len(l) + 1].role # "tool")

\* C2 (the claim as stated): whenever a completion request is issued, every
\* assistant message of the transcript that carries N >= 1 tool calls is directly
\* followed by exactly N tool messages, the i-th with the id of the i-th call.
C2_AllResultsBeforeNextRequest ==
    pc = "create" =>
        \A j \in 1..Len(history) :
            (history[j].role = "assistant" /\ history[j].tool_calls.list # <<>>)
                => FollowedByItsResults(history, j)

\* the text of a turn: its content deltas, concatenated
RECURSIVE ConcatContent(_)
ConcatContent(t) == IF t = <<>> THEN <<>> ELSE Head(t).content \o ConcatContent(Tail(t))
NoToolCallFragment(t) == \A i \in 1..Len(t) : t[i].tool_calls = <<>>

\* C3: when a stream that delivered no tool-call fragment ends, exactly one
\* assistant message is appended, with the text of the turn and tool_calls unset,
\* and chat returns: no tool message, no further request.
C3_NoToolCallsEndsChat ==
    [][(/\ pc = "stream"
        /\ pc' # "stream"
        /\ outcome' \notin TransportErrors
        /\ NoToolCallFragment(turn))
       => (/\ history' = Append(history,
                  Message("assistant", ConcatContent(turn), NoToolCalls, NoneVal))
           /\ pc' = "idle"
           /\ outcome' = "returned"
           /\ requests' = requests
           /\ outstanding' = 0)]_vars

\* C3 witness: a chat call has returned after a single round of plain text
C3_Witness ==
    /\ outcome = "returned"
    /\ Len(history) >= 2
    /\ history[Len(history)].role = "assistant"
    /\ history[Len(history)].tool_calls.isNone
    /\ history[Len(history)].content # <<>>
    /\ history[Len(history) - 1].role = "user"

\* the position of the user message of the chat call in progress (the last one)
LastUser(h) ==
    IF \E j \in 1..Len(h) : h[j].role = "user"
    THEN CHOOSE j \in 1..Len(h) :
            h[j].role = "user" /\ \A k \in (j + 1)..Len(h) : h[k].role # "user"
    ELSE 0

\* C6: within a chat call at most one completion request is outstanding; while
\* call number idx is parsed or run, exactly the results of the idx - 1 calls
\* before it follow the assistant message; and while a request is outstanding
\* no tool runs and every assistant message of this call is followed by the
\* results of all its tool calls.
C6_OneRequestSequentialTools ==
    /\ outstanding <= 1
    /\ outstanding = 1 <=> pc \in {"create", "stream"}
    /\ pc \in {"tools", "run_tool"} =>
          LET j == NearestAssistant(history, Len(history) + 1)
          IN  /\ j # 0
              /\ history[j] = message
              /\ Len(history) = j + idx - 1
              /\ \A i \in 1..(idx - 1) :
                     /\ history[j + i].role = "tool"
                     /\ history[j + i].tool_call_id = message.tool_calls.list[i].id
    /\ pc \in {"loop", "create", "stream"} =>
          \A j \in (LastUser(history) + 1)..Len(history) :
              (history[j].role = "assistant" /\ history[j].tool_calls.list # <<>>)
                  => FollowedByItsResults(history, j)

\* C6 witness: the second request of a call is outstanding after a round that ran
\* two tool calls
C6_Witness ==
    /\ pc = "create"
    /\ Len(history) >= 3
    /\ history[Len(history)].role = "tool"
    /\ history[Len(history) - 1].role = "tool"
    /\ history[Len(history) - 2].role = "assistant"

\* C8: when the completion request or the stream fails, the step that raises
\* leaves the transcript as it is (no assistant message for the round), ends the
\* call with the error and issues no further request.
C8_TransportErrorPropagates ==
    [][(pc \in {"create", "stream"} /\ outcome' \in TransportErrors)
       => (/\ history' = history
           /\ pc' = "idle"
           /\ requests' = requests
           /\ outstanding' = 0)]_vars

\* C8 witness: a call ended with a transport error in a round after one that ran
\* tools, and the messages of the earlier round are in the transcript
C8_Witness ==
    /\ outcome \in TransportErrors
    /\ Len(history) >= 3
    /\ history[Len(history)].role = "tool"
    /\ history[Len(history) - 1].role = "assistant"
    /\ history[Len(history) - 2].role = "user"

\* C9 (the claim as stated): every tool call of a round is dispatched, whatever
\* its argument payload: parsing never ends the call, and a payload that is no
\* JSON text is replaced by an empty map.
C9_ParseFailureNeverAborts ==
    [][pc = "tools"
       => (/\ pc' = "run_tool"
           /\ history' = history
           /\ JsonLoads(message.tool_calls.list[idx].arguments).error # ""
                  => args' = EmptyDict)]_vars

\* ------------------------------------------------------ accumulator claims
\* the accumulator after a whole sequence of deltas, or the fact that it raised
AccRaised == [raised |-> TRUE, acc |-> NewAcc]
RECURSIVE AccumulateFrom(_, _)
AccumulateFrom(a, t) ==
    IF t = <<>> THEN [raised |-> FALSE, acc |-> a]
    ELSE LET r == ApplyDelta(a, Head(t))
         IN  IF r.raised THEN AccRaised ELSE AccumulateFrom(r.acc, Tail(t))
Accumulate(t) == AccumulateFrom(NewAcc, t)

\* the tool-call fragments of a turn, in arrival order
RECURSIVE Fragments(_)
Fragments(t) == IF t = <<>> THEN <<>> ELSE Head(t).tool_calls \o Fragments(Tail(t))
EveryFragmentHasId(t) == \A i \in 1..Len(Fragments(t)) : Fragments(t)[i].id # NoneVal
\* the fragments of each call arrive together, call by call
CallByCall(t) ==
    LET f == Fragments(t)
    IN  \A i, j, k \in 1..Len(f) : (i < j /\ j < k /\ f[i].id = f[k].id) => f[j].id = f[i].id

\* the same turn as a provider sends it that gives the id only on the first
\* fragment of each call
RECURSIVE OmitInFragments(_, _)
OmitInFragments(tcs, seen) ==
    IF tcs = <<>> THEN <<>>
    ELSE <<IF Head(tcs).id \in seen THEN [Head(tcs) EXCEPT !.id = NoneVal] ELSE Head(tcs)>>
         \o OmitInFragments(Tail(tcs), seen \cup {Head(tcs).id})
RECURSIVE OmitFrom(_, _)
OmitFrom(t, seen) ==
    IF t = <<>> THEN <<>>
    ELSE <<[Head(t) EXCEPT !.tool_calls = OmitInFragments(@, seen)]>>
         \o OmitFrom(Tail(t), seen \cup {Head(t).tool_calls[i].id : i \in 1..Len(Head(t).tool_calls)})
OmitRepeatedIds(t) == OmitFrom(t, {})

\* what the session made of the deltas of turn: its accumulator while the stream
\* is read, or the TypeError the accumulator raised
Accumulated ==
    IF pc = "stream" THEN [raised |-> FALSE, acc |-> acc] ELSE AccRaised
TurnInProgressOrRaised ==
    \/ pc = "stream"
    \/ pc = "idle" /\ outcome = "TypeError" /\ turn # <<>>

\* C4 (the claim as stated): for any fragment sequence with the id on every
\* fragment, the sequence with the id only on the first fragment of each call
\* accumulates to the same text, flag and tool-call list.
C4_IdOmissionSameResult_AnySequence ==
    (TurnInProgressOrRaised /\ EveryFragmentHasId(turn))
        => Accumulate(OmitRepeatedIds(turn)) = Accumulated

\* C4 (amended): the same, for sequences in which the fragments of each call
\* arrive together (call by call, not interleaved).
C4_IdOmissionSameResult ==
    (TurnInProgressOrRaised /\ EveryFragmentHasId(turn) /\ CallByCall(turn))
        => Accumulate(OmitRepeatedIds(turn)) = Accumulated

\* C4 witness: calls A and B were opened and B continued with its id repeated
C4_Witness ==
    /\ pc = "stream"
    /\ EveryFragmentHasId(turn)
    /\ CallByCall(turn)
    /\ Len(Fragments(turn)) = 4
    /\ Len(acc.tool_calls_map) = 2
    /\ Len(acc.tool_calls_map[1].arguments.text) = 1
    /\ Len(acc.tool_calls_map[2].arguments.text) = 2

\* the single fragment of the delta processed by this step, when it carries no id
\* and some argument text
LastDelta(t) == t[Len(t)]
IdlessTextStep ==
    /\ pc = "stream"
    /\ Len(turn') = Len(turn) + 1
    /\ Len(LastDelta(turn').tool_calls) = 1
    /\ LastDelta(turn').tool_calls[1].id = NoneVal
    /\ Truthy(LastDelta(turn').tool_calls[1].arguments)

\* C5 (the claim as stated): with two calls open, the argument text of a fragment
\* without an id is appended to the entry inserted last and to no other, also
\* when the first entry was updated after the second was opened.
C5_IdlessFragmentGoesToLastInserted ==
    [][(IdlessTextStep /\ Len(acc.tool_calls_map) >= 2)
       => (/\ pc' = "stream"
           /\ acc'.tool_calls_map =
                  [acc.tool_calls_map EXCEPT ![Len(acc.tool_calls_map)].arguments.text =
                      @ \o LastDelta(turn').tool_calls[1].arguments.text])]_vars

\* C10: a fragment without an id that finds no entry is dropped: the tool-call
\* map stays empty, the text buffer gets the delta's own text only, the stream is
\* read on and the call does not fail.
C10_OrphanFragmentDropped ==
    [][(/\ pc = "stream"
        /\ acc.tool_calls_map = <<>>
        /\ Len(turn') = Len(turn) + 1
        /\ \A i \in 1..Len(LastDelta(turn').tool_calls) :
               LastDelta(turn').tool_calls[i].id = NoneVal)
       => (/\ pc' = "stream"
           /\ outcome' = outcome
           /\ acc'.tool_calls_map = <<>>
           /\ acc'.full_content = acc.full_content \o LastDelta(turn').content)]_vars

\* C10 witness: the first fragment of a turn came without an id and with text,
\* and a later fragment then opened a call
C10_Witness ==
    /\ pc = "stream"
    /\ Len(turn) >= 2
    /\ Len(turn[1].tool_calls) = 1
    /\ turn[1].tool_calls[1].id = NoneVal
    /\ Truthy(turn[1].tool_calls[1].arguments)
    /\ turn[1].content # <<>>
    /\ Len(acc.tool_calls_map) = 1
    /\ acc.full_content = turn[1].content

\* ------------------------------------------------------ dispatcher claims
\* the tool call being run and the failures the claim lists, decided on the
\* inputs of run_tool: the name, the parsed arguments and the files
ToolName == message.tool_calls.list[idx].name
ArgOr(key, default) == DictGet(args, key, default)
PathArg == ArgOr(STR_path, PyStr(<<>>))
FilePath == PathJoin(WORKDIR, PathArg.v)
UnknownTool == ToolName \notin RegisteredTools
ArgsNotAMap == ~UnknownTool /\ args.k # "dict"
TakesPath == ToolName \in {STR_read_file, STR_write_file, STR_StrReplaceFile} /\ args.k = "dict"
PathNotAString == TakesPath /\ PathArg.k # "str"
ReadsMissingFile ==
    /\ ToolName = STR_read_file /\ TakesPath /\ PathArg.k = "str"
    /\ FilePath \notin DOMAIN fs
WriteFails ==
    /\ ToolName = STR_write_file /\ TakesPath /\ PathArg.k = "str"
    /\ \/ ~CanOpenForWrite(fs, FilePath)
       \/ ArgOr(STR_content, PyStr(<<>>)).k # "str"
IsEdit(e) ==
    /\ e.k = "dict"
    /\ DictGet(e, STR_target, PyStr(<<>>)).k = "str"
    /\ DictGet(e, STR_replacement, PyStr(<<>>)).k = "str"
MalformedEdits(e) ==
    \/ e.k \in {"int", "none"}
    \/ e.k \in {"str", "dict"} /\ e.v # <<>>
    \/ e.k = "list" /\ \E i \in 1..Len(e.v) : ~IsEdit(e.v[i])
ReplaceFails ==
    /\ ToolName = STR_StrReplaceFile /\ TakesPath /\ PathArg.k = "str"
    /\ \/ FilePath \notin DOMAIN fs
       \/ MalformedEdits(ArgOr(STR_edits, PyList(<<>>)))
ListedFailure ==
    UnknownTool \/ ArgsNotAMap \/ ReadsMissingFile \/ WriteFails \/ ReplaceFails
STR_ErrorColon == <<"E","r","r","o","r",":">>

\* C7 (the claim as stated): run_tool never raises, and every failure the claim
\* lists gives a text that starts with `Error:`.
C7_FailuresStartWithErrorColon ==
    /\ outcome # "Exception"
    /\ pc = "run_tool" =>
          \A env \in ToolEnvs :
              LET r == run_tool(ToolName, args, WORKDIR, fs, env)
              IN  /\ ~r.raised
                  /\ ListedFailure => StartsWith(r.text, STR_ErrorColon)

\* C7 (amended): run_tool never raises, and every failure gives a text: `Error:
\* Unknown tool: <name>` for an unknown tool, `Error executing tool <name>: ` for
\* arguments that are not a map or a path that is not a string, and the helper's
\* own text (`Error reading file `, `Error writing to file `, `Error performing
\* string replacements in file `) for a failure on the file.
C7_FailuresAreReturnedAsText ==
    /\ outcome # "Exception"
    /\ pc = "run_tool" =>
          \A env \in ToolEnvs :
              LET r == run_tool(ToolName, args, WORKDIR, fs, env)
              IN  /\ ~r.raised
                  /\ UnknownTool => r.text = STR_UnknownTool \o ToolName
                  /\ (ArgsNotAMap \/ PathNotAString)
                        => StartsWith(r.text, STR_ErrorExecuting \o ToolName \o STR_ColonSpace)
                  /\ ReadsMissingFile => StartsWith(r.text, STR_ErrorReading \o FilePath)
                  /\ WriteFails => StartsWith(r.text, STR_ErrorWriting \o FilePath)
                  /\ ReplaceFails => StartsWith(r.text, STR_ErrorReplacing \o FilePath)

\* C7 witness: read_file of a missing file has returned its error text, and the
\* text is in the transcript as the result of the call
C7_Witness ==
    /\ pc = "loop"
    /\ StartsWith(result, STR_ErrorReading)
    /\ history[Len(history)].role = "tool"
    /\ history[Len(history)].content = result

\* ------------------------------------------------------------ C11
\* some delta of the turn carried a tool-call fragment
SomeFragment(t) == \E i \in 1..Len(t) : t[i].tool_calls # <<>>

\* the step that ends a model turn: the stream is exhausted and the assistant
\* message is appended
TurnEnds == pc = "stream" /\ Len(history') = Len(history) + 1

\* C11: when the stream of a turn ends, has_tool_calls is true exactly when some
\* delta of the stream carried a tool-call fragment, and the assistant message
\* appended has tool_calls set to the accumulated list when it is true and unset
\* (None) when it is false.
C11_HasToolCallsIffFragmentSeen ==
    [][TurnEnds =>
        LET m == history'[Len(history')]
        IN  /\ acc.has_tool_calls <=> SomeFragment(turn)
            /\ m.role = "assistant"
            /\ SomeFragment(turn) =>
                   /\ ~m.tool_calls.isNone
                   /\ m.tool_calls.list = acc.tool_calls_map
            /\ ~SomeFragment(turn) => m.tool_calls.isNone]_vars

\* C11 witness: a turn whose only fragment came without an id and was dropped has
\* ended with tool_calls set to the empty list
C11_Witness ==
    /\ pc = "idle"
    /\ outcome = "returned"
    /\ SomeFragment(turn)
    /\ history[Len(history)].role = "assistant"
    /\ ~history[Len(history)].tool_calls.isNone
    /\ history[Len(history)].tool_calls.list = <<>>

\* ------------------------------------------------------------ C12
\* the texts of the deltas of a turn that carry text, in arrival order
RECURSIVE TextDeltas(_)
TextDeltas(t) ==
    IF t = <<>> THEN <<>>
    ELSE IF Head(t).content # <<>>
         THEN <<Head(t).content>> \o TextDeltas(Tail(t))
         ELSE TextDeltas(Tail(t))

\* the concatenation of a list of texts
RECURSIVE Concat(_)
Concat(l) == IF l = <<>> THEN <<>> ELSE Head(l) \o Concat(Tail(l))

\* C12: with a callback registered, its invocations during a turn are exactly the
\* non-empty text deltas the stream has delivered so far, one invocation per delta
\* in arrival order, each made while its delta is processed; deltas with no text (tool-call
\* fragments only) cause none; and when the turn ends the concatenation of the
\* callback's arguments is the content of the assistant message appended.
C12_CallbackOncePerTextDelta ==
    /\ []((pc = "stream" /\ on_chunk) => calls = TextDeltas(turn))
    /\ [][(pc = "stream" /\ on_chunk /\ Len(turn') = Len(turn) + 1) =>
             calls' = IF LastDelta(turn').content # <<>>
                      THEN Append(calls, LastDelta(turn').content)
                      ELSE calls]_vars
    /\ [][(TurnEnds /\ on_chunk) =>
             history'[Len(history')].content = Concat(calls)]_vars

\* C12 witness: a turn with a callback registered got two text deltas and a
\* tool-call fragment and ended
C12_Witness ==
    /\ on_chunk
    /\ pc # "stream"
    /\ Len(calls) = 2
    /\ SomeFragment(turn)
    /\ history[Len(history)].role = "assistant"
    /\ history[Len(history)].content = Concat(calls)

\* ------------------------------------------------------------ C13
IsPrefix(s, t) == Len(s) <= Len(t) /\ SubSeq(t, 1, Len(s)) = s

\* C13: every step of chat only appends to the transcript: the transcript before
\* a step is a prefix of the transcript after it, so no message already appended,
\* with the tool calls it holds, is changed by later fragments, rounds or calls.
C13_TranscriptAppendOnly == [][IsPrefix(history, history')]_vars

\* C13 witness: an assistant message with tool calls was appended in a first chat
\* call, and a second call has since streamed further fragments and appended
C13_Witness ==
    /\ chats = 2
    /\ requests = 2
    /\ SomeFragment(turn)
    /\ \E i \in 1..(Len(history) - 2) :
          /\ history[i].role = "assistant"
          /\ ~history[i].tool_calls.isNone
          /\ history[i].tool_calls.list # <<>>
          /\ history[i + 1].role = "user"
          /\ history[i + 2].role = "assistant"

\* ------------------------------------------------------------ C14
\* the omitted-count marker for a count given as text
Marker(n) == STR_OmittedHead \o n \o STR_OmittedTail
STR_19201 == <<"1","9","2","0","1">>
EndsInNewline(s) == s # <<>> /\ s[Len(s)] = "\n"
\* the result is a truncation of the output: shorter than the output is without
\* its trailing newline characters
WasTruncated == Len(result) < Len(RStripNewlines(output))

\* what C14 says of an output of 32000 and of 32001 characters
BoundaryCases ==
    /\ Len(output) = 32000 => result = output
    /\ Len(output) = 32001 =>
          result = SubSeq(output, 1, 6400) \o Marker(STR_19201)
                       \o SubSeq(output, 32001 - 6400 + 1, 32001)

\* an output is truncated exactly when it is longer than 32000 characters
\* without its trailing newline characters, and is otherwise returned stripped
TruncatedIffOver ==
    /\ WasTruncated <=> Len(RStripNewlines(output)) > 32000
    /\ ~WasTruncated => result = RStripNewlines(output)

\* C14 (the claim as stated): every output of exactly 32000 characters is returned
\* unmodified and every output of 32001 characters is truncated to its first 6400
\* characters, the marker with N = 19201 and its last 6400 characters; an output
\* is truncated iff its length after stripping trailing newlines exceeds 32000.
C14_Boundary_AnyOutput ==
    pc = "formatted" => (BoundaryCases /\ TruncatedIffOver)

\* C14 (amended): the two boundary cases hold for outputs that do not end in a
\* newline character; an output is truncated iff its length after stripping
\* trailing newlines exceeds 32000.
C14_Boundary ==
    pc = "formatted" =>
        /\ ~EndsInNewline(output) => BoundaryCases
        /\ TruncatedIffOver

\* C14 witness: an output of 32001 characters with no newline at its end was
\* truncated
C14_Witness ==
    /\ pc = "formatted"
    /\ Len(output) = 32001
    /\ ~EndsInNewline(output)
    /\ WasTruncated

\* ------------------------------------------------------------ C15
DigitValue(c) ==
    CASE c = "0" -> 0 [] c = "1" -> 1 [] c = "2" -> 2 [] c = "3" -> 3 [] c = "4" -> 4
      [] c = "5" -> 5 [] c = "6" -> 6 [] c = "7" -> 7 [] c = "8" -> 8 [] c = "9" -> 9
RECURSIVE TextToNat(_)
TextToNat(t) ==
    IF t = <<>> THEN 0
    ELSE 10 * TextToNat(SubSeq(t, 1, Len(t) - 1)) + DigitValue(t[Len(t)])

\* the text between `...[` and ` characters omitted]...` of a truncated result
\* whose head and tail are 6400 characters long
MarkerDigits(r) ==
    SubSeq(r, 6400 + Len(STR_OmittedHead) + 1, Len(r) - 6400 - Len(STR_OmittedTail))

\* C15: for every output that is truncated, the result is the first 6400
\* characters, the marker and the last 6400 characters of the stripped output,
\* and the number N of the marker is the length of the output as given (trailing
\* newlines included) minus 6400 minus 6400, so 6400 + N + 6400 is that length.
C15_MarkerCountsDropped ==
    (pc = "formatted" /\ WasTruncated) =>
        LET cleaned == RStripNewlines(output)
            digits == MarkerDigits(result)
        IN  /\ digits # <<>>
            /\ \A i \in 1..Len(digits) :
                   digits[i] \in {"0","1","2","3","4","5","6","7","8","9"}
            /\ result = SubSeq(cleaned, 1, 6400) \o Marker(digits)
                            \o SubSeq(cleaned, Len(cleaned) - 6400 + 1, Len(cleaned))
            /\ 6400 + TextToNat(digits) + 6400 = Len(output)

\* C15 witness: a truncated output that ended in newline characters
C15_Witness ==
    /\ pc = "formatted"
    /\ WasTruncated
    /\ EndsInNewline(output)
    /\ Len(output) - Len(RStripNewlines(output)) = 2

\* ------------------------------------------------------------ C16
\* C16 (the claim as stated): every tool message of the transcript holds a shaped
\* result, whatever the tool name and the outcome: its content c has no trailing
\* newline character and at most 32000 characters, formatted_tool_output(c) = c.
C16_EveryToolResultShaped ==
    \A i \in 1..Len(history) :
        history[i].role = "tool" =>
            /\ formatted_tool_output(history[i].content) = history[i].content
            /\ ~EndsInNewline(history[i].content)
            /\ Len(history[i].content) <= 32000

\* ------------------------------------------------------------ C17
\* the tool call being run is a bash call whose command the shell can take
RunsBash ==
    /\ pc = "run_tool"
    /\ message.tool_calls.list[idx].name = STR_bash
    /\ args.k = "dict"
    /\ IsShellCommand(DictGet(args, STR_command, PyStr(<<>>)))

\* C17: whatever the exit code of the command, the bash tool does not raise: its
\* raw result is stdout if that is non-empty, else stderr if that is non-empty,
\* else `(empty output)`, and the tool message holds it without its trailing
\* newline characters; so a command that writes to stderr only and exits non-zero
\* gives that error text.
C17_BashNonZeroExitReturnsText ==
    [][\A env \in ToolEnvs :
          (RunsBash /\ ~env.bash.raises /\ ToolReturns(env)) =>
              LET raw == IF env.bash.stdout # <<>> THEN env.bash.stdout
                         ELSE IF env.bash.stderr # <<>> THEN env.bash.stderr
                         ELSE STR_EmptyOutput
              IN  /\ output' = raw
                  /\ result' = RStripNewlines(raw)
                  /\ outcome' = ""
                  /\ history' = Append(history,
                         Message("tool", RStripNewlines(raw), NoToolCalls,
                                 message.tool_calls.list[idx].id))]_vars

\* C17 witness: a command that wrote to stderr only (and exited non-zero) has
\* given its error text, stripped, as the tool message
C17_Witness ==
    /\ pc = "loop"
    /\ output = <<"e", "\n">>
    /\ history[Len(history)].role = "tool"
    /\ history[Len(history)].content = <<"e">>
    /\ history[Len(history) - 1].tool_calls.list[1].name = STR_bash

\* ------------------------------------------------------------ C18
\* content with the first (leftmost) occurrence of target replaced, content
\* itself when target does not occur in it
FirstOccurrenceReplaced(content, target, replacement) ==
    LET at(i) == /\ i + Len(target) - 1 <= Len(content)
                 /\ \A k \in 1..Len(target) : content[i + k - 1] = target[k]
        places == {i \in 1..(Len(content) + 1) : at(i)}
    IN  IF places = {} THEN content
        ELSE LET first == CHOOSE i \in places : \A j \in places : i <= j
             IN  SubSeq(content, 1, first - 1) \o replacement
                     \o SubSeq(content, first + Len(target), Len(content))

\* the left fold of replace-first over a list of edits {target, replacement}
RECURSIVE FoldReplaceFirst(_, _)
FoldReplaceFirst(content, edits) ==
    IF edits = <<>> THEN content
    ELSE FoldReplaceFirst(
             FirstOccurrenceReplaced(content, Head(edits).v[STR_target].v,
                                     Head(edits).v[STR_replacement].v),
             Tail(edits))

\* the arguments parsed for the StrReplaceFile call being run: an existing file
\* and a list of edits that each give a target and a replacement text
EditsArg == DictGet(args, STR_edits, PyList(<<>>))
RunsStrReplace ==
    /\ pc = "run_tool"
    /\ message.tool_calls.list[idx].name = STR_StrReplaceFile
    /\ args.k = "dict"
    /\ PathArg.k = "str"
    /\ IsFile(fs, FilePath)
    /\ EditsArg.k = "list"
    /\ \A i \in 1..Len(EditsArg.v) :
          /\ EditsArg.v[i].k = "dict"
          /\ DOMAIN EditsArg.v[i].v = {STR_target, STR_replacement}
          /\ EditsArg.v[i].v[STR_target].k = "str"
          /\ EditsArg.v[i].v[STR_replacement].k = "str"

ChatReturns == pc # "idle" /\ pc' = "idle" /\ outcome' = "returned"

\* the step that appends the result of the last tool call of a round
LastToolOfRoundDone ==
    /\ pc = "run_tool"
    /\ idx = Len(message.tool_calls.list)
    /\ Len(history') = Len(history) + 1

\* C19: chat returns normally only on the end of a turn that yielded no tool
\* call; after the last tool result of a round it neither returns nor stops but
\* stands at the top of the loop, where the next request is issued, however
\* many rounds came before (the model's bound on requests aside); and a call in
\* progress does not stall: it ends, by returning after a turn without tool
\* calls or by an error, unless the model keeps asking for tools.
C19_ReturnsOnlyOnToollessTurn ==
    /\ [][ChatReturns =>
             /\ TurnEnds
             /\ history'[Len(history')].role = "assistant"
             /\ history'[Len(history')].tool_calls.list = <<>>
             /\ acc.tool_calls_map = <<>>]_vars
    /\ [][LastToolOfRoundDone => (pc' = "loop" /\ outcome' = "")]_vars
    /\ (pc = "loop" /\ requests < MaxRequests) ~> (pc = "create")
    /\ (pc # "idle") ~> (pc = "idle" \/ (pc = "loop" /\ requests = MaxRequests))

\* C19 witness: chat has returned after a round with tool calls and a second
\* turn without any
C19_Witness ==
    /\ pc = "idle"
    /\ outcome = "returned"
    /\ chats = 1
    /\ requests = 2
    /\ \E i \in 1..Len(history) : history[i].role = "tool"
    /\ history[Len(history)].role = "assistant"
    /\ history[Len(history)].tool_calls.isNone

\* ------------------------------------------------------------ C20
\* the request entry w carries the message m: its role and content, the id of
\* the call a tool message answers, and the tool calls of an assistant message
\* that has some, in their order
Carries(w, m) ==
    /\ w.role = m.role
    /\ w.content = m.content
    /\ m.role = "tool" => (w.has_tool_call_id /\ w.tool_call_id = m.tool_call_id)
    /\ m.tool_calls.list # <<>> =>
          /\ w.has_tool_calls
          /\ Len(w.tool_calls) = Len(m.tool_calls.list)
          /\ \A c \in 1..Len(w.tool_calls) :
                /\ w.tool_calls[c].id = m.tool_calls.list[c].id
                /\ w.tool_calls[c].function.name = m.tool_calls.list[c].name
                /\ w.tool_calls[c].function.arguments = m.tool_calls.list[c].arguments

\* the step that issues a completion request
RequestIssued == requests' = requests + 1

\* C20: a completion request carries every message of the transcript as it
\* stands when the request is issued, one entry per message in transcript order;
\* so a request that follows a round with tool calls carries the user message,
\* the round's assistant message and all of the round's tool results.
C20_RequestCarriesTranscript ==
    [][RequestIssued =>
          /\ history' = history
          /\ Len(request') = Len(history)
          /\ \A i \in 1..Len(history) : Carries(request'[i], history[i])]_vars

\* C20 witness: the second request of a chat call is out, and it carries the
\* user message, the assistant message of the first round with its tool calls
\* and a tool result for each of them
C20_Witness ==
    /\ pc = "create"
    /\ chats = 1
    /\ requests = 2
    /\ \E u \in 1..Len(request) :
          /\ request[u].role = "user"
          /\ Len(request) >= u + 2
          /\ request[u + 1].role = "assistant"
          /\ request[u + 1].has_tool_calls
          /\ Len(request) = u + 1 + Len(request[u + 1].tool_calls)
          /\ \A c \in 1..Len(request[u + 1].tool_calls) :
                /\ request[u + 1 + c].role = "tool"
                /\ request[u + 1 + c].tool_call_id = request[u + 1].tool_calls[c].id

\* ------------------------------------------------------------ C21
\* the five descriptors of the registry, by name
FiveTools ==
    <<<<"b","a","s","h">>,
      <<"r","e","a","d","_","f","i","l","e">>,
      <<"w","r","i","t","e","_","f","i","l","e">>,
      <<"S","t","r","R","e","p","l","a","c","e","F","i","l","e">>,
      <<"f","e","t","c","h","_","u","r","l">>>>

\* C21: the tool registry is never changed by chat, tool executions or
\* clear_history, it holds the five descriptors bash, read_file, write_file,
\* StrReplaceFile and fetch_url throughout, and every completion request is
\* given it.
C21_RegistryUnchangedAndSent ==
    /\ TOOLS = FiveTools
    /\ requests > 0 => tools_sent = FiveTools

\* C21 witness: requests were made, a tool wrote a file and the transcript was
\* cleared
C21_Witness ==
    /\ requests = 2
    /\ fs[FILE_f] = <<"b">>
    /\ Len(history) = 1
    /\ tools_sent = FiveTools

\* ------------------------------------------------------------ C22
\* the system prompts a session can compose: the base prompt, alone or followed
\* by a blank line and the skills text
ComposedPrompt(cfg) ==
    IF cfg.skills_dir /\ cfg.skills_prompt # <<>>
    THEN STR_system \o <<"\n", "\n">> \o cfg.skills_prompt
    ELSE STR_system

\* C22 (the claim as stated): once init() has completed and after any sequence of
\* chat and clear_history calls, the transcript is non-empty, its first message
\* is the system message with the system prompt (with or without the skills
\* text), whether or not a skills directory is configured, and no other message
\* has role system.
C22_FirstMessageIsSystemPrompt ==
    /\ history # <<>>
    /\ history[1].role = "system"
    /\ history[1].content \in {STR_system, ComposedPrompt(config)}
    /\ \A i \in 2..Len(history) : history[i].role # "system"

\* ------------------------------------------------------------ C23
\* the step of a clear_history call that changes the transcript
ClearStep == pc = "idle" /\ pc' = "idle" /\ chats' = chats /\ history' # history

\* C23 (the claim as stated): clear_history leaves exactly one message, the
\* system message whose content is that of the system message the session was
\* initialised with, the base prompt plus any skills text.
C23_ClearKeepsSystemPrompt ==
    [][ClearStep =>
          /\ Len(history') = 1
          /\ history'[1].role = "system"
          /\ history'[1].content = ComposedPrompt(config)]_vars

\* ------------------------------------------------------------ C24
\* the step by which the CLI loop takes note that its chat call failed with a
\* transport error
CliSeesTransportError ==
    /\ cli.pc = "prompt"
    /\ cli.handled < chats
    /\ pc = "idle"
    /\ outcome \in TransportErrors
    /\ cli' # cli

\* C24 (the claim as stated): when session.chat fails with a transport error in
\* the interactive CLI loop, the error is reported once and the loop goes on: it
\* is at its prompt again with the same session, ready for the next input.
C24_CliSurvivesTransportError ==
    [][CliSeesTransportError =>
          /\ cli'.reported = cli.reported + 1
          /\ cli'.pc = "prompt"
          /\ cli'.handled = chats
          /\ history' = history]_vars

\* ------------------------------------------------------------ C25
\* the wire form of a message invokes tools: it has a tool_calls key
InvokesTools(d) == d.has_tool_calls

\* C25 (the claim as stated): in every completion request each tool call of an
\* assistant message is sent with type "function", whatever type the stream
\* fragments carried; the tool_calls key appears only on assistant messages that
\* invoke tools and the tool_call_id key only on tool-role messages.
C25_WireToolCallsTyped ==
    \A i \in 1..Len(request) :
        /\ InvokesTools(request[i]) =>
              /\ request[i].role = "assistant"
              /\ request[i].tool_calls # <<>>
              /\ \A k \in 1..Len(request[i].tool_calls) :
                    request[i].tool_calls[k].type = "function"
        /\ request[i].has_tool_call_id => request[i].role = "tool"

\* the part of C25 about which messages carry the keys, which the code keeps
C25_KeysOnlyWhereDue ==
    \A i \in 1..Len(request) :
        /\ InvokesTools(request[i]) =>
              request[i].role = "assistant" /\ request[i].tool_calls # <<>>
        /\ request[i].has_tool_call_id => request[i].role = "tool"

\* ------------------------------------------------------------ C26
\* a call of Session.chat starts in this step
ChatStarts == chats' = chats + 1

UserMessagesOf(h) == {i \in 1..Len(h) : h[i].role = "user"}

\* the messages of h from position i on, i excluded, are the assistant and tool
\* messages of the call in progress
OnlyRepliesAfter(h, i) ==
    \A j \in (i + 1)..Len(h) : h[j].role \in {"assistant", "tool"}

\* C26: each call of Session.chat appends exactly one user message carrying the
\* input text, as its first step and before the first completion request is
\* issued (the step issues no request, and every request of the call is made
\* with that user message in the transcript, followed only by the replies of
\* the call); no other step of chat appends a user message.
C26_OneUserMessagePerChat ==
    [][/\ ChatStarts =>
            /\ pc = "idle"
            /\ requests' = requests
            /\ outstanding' = outstanding
            /\ \E u \in SessionInputs :
                  history' = Append(history, [role |-> "user", content |-> u,
                                              tool_calls |-> NoToolCalls,
                                              tool_call_id |-> NoneVal])
       /\ ~ChatStarts =>
            \A i \in (Len(history) + 1)..Len(history') : history'[i].role # "user"
       /\ requests' = requests + 1 =>
            \E i \in UserMessagesOf(history) : OnlyRepliesAfter(history, i)]_vars

C26_Witness ==
    /\ chats = 2
    /\ pc = "create"
    /\ \E i, j \in UserMessagesOf(history) :
          /\ i < j
          /\ history[i].content = <<"u">>
          /\ history[j].content = <<"v">>
          /\ \E k \in (i + 1)..(j - 1) : history[k].role = "assistant"
          /\ OnlyRepliesAfter(history, j)

\* ------------------------------------------------------------ C27
\* the ids of a list of tool calls or fragments, in order
IdsOf(l) == [i \in 1..Len(l) |-> l[i].id]

\* the ids that fragments carry, each once, in the order of first appearance
RECURSIVE FirstAppearances(_, _)
FirstAppearances(f, seen) ==
    IF f = <<>> THEN <<>>
    ELSE IF Head(f).id = NoneVal \/ \E i \in 1..Len(seen) : seen[i] = Head(f).id
         THEN FirstAppearances(Tail(f), seen)
         ELSE <<Head(f).id>> \o FirstAppearances(Tail(f), Append(seen, Head(f).id))

PairwiseDistinct(l) == \A i, j \in 1..Len(l) : l[i] = l[j] => i = j

\* C27: the tool_calls list of every assistant message contains pairwise distinct
\* ids, in the order in which each id first appeared in the stream of that turn,
\* however many later fragments each call received.
C27_DistinctIdsInFirstAppearanceOrder ==
    [][TurnEnds =>
        LET m == history'[Len(history')]
        IN  /\ m.role = "assistant"
            /\ ~m.tool_calls.isNone =>
                  /\ PairwiseDistinct(IdsOf(m.tool_calls.list))
                  /\ IdsOf(m.tool_calls.list) = FirstAppearances(Fragments(turn), <<>>)]_vars

\* a turn ended in which call A got a further fragment after call B was opened
C27_Witness ==
    /\ pc # "stream"
    /\ message # NoMessage
    /\ ~message.tool_calls.isNone
    /\ IdsOf(message.tool_calls.list) = <<"A", "B">>
    /\ \E i, j, k \in 1..Len(Fragments(turn)) :
          /\ i < j /\ j < k
          /\ Fragments(turn)[i].id = "A"
          /\ Fragments(turn)[j].id = "B"
          /\ Fragments(turn)[k].id = "A"

\* ------------------------------------------------------------ C28
\* the stream delivers a delta whose one fragment carries the id of an entry
\* that tool_calls_map already holds
MatchingFragmentStep ==
    /\ pc = "stream"
    /\ Len(turn') = Len(turn) + 1
    /\ Len(LastDelta(turn').tool_calls) = 1
    /\ LastDelta(turn').tool_calls[1].id # NoneVal
    /\ \E i \in 1..Len(acc.tool_calls_map) :
          acc.tool_calls_map[i].id = LastDelta(turn').tool_calls[1].id

\* what C28 says of the entries after the step
OnlyAppended(old, new, f) ==
    /\ Len(new) = Len(old)
    /\ \A i \in 1..Len(old) :
          IF old[i].id = f.id
          THEN /\ new[i].id = old[i].id
               /\ new[i].name = old[i].name
               /\ new[i].type = old[i].type
               /\ new[i].arguments =
                     IF f.arguments.isNone \/ f.arguments.text = <<>>
                     THEN old[i].arguments
                     ELSE [isNone |-> FALSE,
                           text |-> old[i].arguments.text \o f.arguments.text]
          ELSE new[i] = old[i]

\* C28 (the claim as stated): a tool-call fragment whose id matches an existing
\* entry never changes that entry's id, name or type, even when it carries
\* another name or type: it only appends its argument text (if any) to that
\* entry's argument buffer and leaves every other entry unchanged.
C28_MatchingFragmentOnlyAppends ==
    [][MatchingFragmentStep =>
          /\ pc' = "stream"
          /\ OnlyAppended(acc.tool_calls_map, acc'.tool_calls_map,
                          LastDelta(turn').tool_calls[1])]_vars

\* what the code keeps of C28: the same, except that a fragment with text for
\* an entry opened without argument text aborts the chat call
C28_OnlyAppendsUnlessAborted ==
    [][MatchingFragmentStep =>
        LET f == LastDelta(turn').tool_calls[1]
            old == acc.tool_calls_map
        IN  IF pc' = "stream"
            THEN OnlyAppended(old, acc'.tool_calls_map, f)
            ELSE /\ outcome' = "TypeError"
                 /\ history' = history
                 /\ Truthy(f.arguments)
                 /\ \E i \in 1..Len(old) : old[i].id = f.id /\ old[i].arguments.isNone]_vars

\* ------------------------------------------------------------ C29
\* the argument text a fragment or an entry carries, empty when absent
TextOf(a) == IF a.isNone THEN <<>> ELSE a.text

\* how a fragment opens a call: with argument text absent, with the empty
\* string, or with either
Absent(tc) == tc.arguments.isNone
WithEmptyString(tc) == ~tc.arguments.isNone /\ tc.arguments.text = <<>>
WithoutText(tc) == Absent(tc) \/ WithEmptyString(tc)
OpensAs(tc, how) ==
    CASE how = "absent" -> Absent(tc)
      [] how = "empty" -> WithEmptyString(tc)
      [] OTHER -> WithoutText(tc)

\* the ids whose opening fragment (the first to carry the id) opens the call so
RECURSIVE OpenedWith(_, _, _)
OpenedWith(f, seen, how) ==
    IF f = <<>> THEN {}
    ELSE IF Head(f).id = NoneVal \/ Head(f).id \in seen
         THEN OpenedWith(Tail(f), seen, how)
         ELSE (IF OpensAs(Head(f), how) THEN {Head(f).id} ELSE {})
              \cup OpenedWith(Tail(f), seen \cup {Head(f).id}, how)

\* the argument text that the fragments after the opening of call x bring to it,
\* in arrival order: those that carry its id, and those without an id that arrive
\* while x is the call opened last
RECURSIVE FillOf(_, _, _, _)
FillOf(f, x, seen, last) ==
    IF f = <<>> THEN <<>>
    ELSE LET h == Head(f)
         IN  IF h.id # NoneVal
             THEN IF h.id \in seen
                  THEN (IF h.id = x THEN TextOf(h.arguments) ELSE <<>>)
                       \o FillOf(Tail(f), x, seen, last)
                  ELSE FillOf(Tail(f), x, seen \cup {h.id}, h.id)
             ELSE (IF last = x THEN TextOf(h.arguments) ELSE <<>>)
                  \o FillOf(Tail(f), x, seen, last)

StreamStep == pc = "stream" /\ Len(turn') = Len(turn) + 1

FilledAtStreamEnd(how) ==
    TurnEnds =>
        LET m == history'[Len(history')]
            f == Fragments(turn)
        IN  \A x \in OpenedWith(f, {}, how) :
                /\ ~m.tool_calls.isNone
                /\ \E i \in 1..Len(m.tool_calls.list) :
                      /\ m.tool_calls.list[i].id = x
                      /\ TextOf(m.tool_calls.list[i].arguments) = FillOf(f, x, {}, NoneVal)

\* C29 (the claim as stated): a tool call opened by a fragment that carries an id
\* but no argument text (empty or absent) is filled by later fragments: at stream
\* end its argument payload is the concatenation, in arrival order, of the
\* argument text of all later fragments that carry its id or continue it without
\* an id, and the stream is processed without failure.
C29_OpenedWithoutTextIsFilled ==
    [][/\ (StreamStep /\ OpenedWith(Fragments(turn'), {}, "without text") # {}) =>
              pc' = "stream"
       /\ FilledAtStreamEnd("without text")]_vars

\* what the code keeps of C29: a call opened with the empty string is filled so,
\* and a stream that opens no call with absent argument text does not fail
C29_OpenedWithEmptyStringIsFilled ==
    [][/\ (StreamStep /\ OpenedWith(Fragments(turn'), {}, "absent") = {}) =>
              pc' = "stream"
       /\ FilledAtStreamEnd("empty")]_vars

\* ------------------------------------------------------------ C30
\* the _generate_response tasks created and not ended: the Session.chat calls
\* of the application that are pending or running
InFlight == tui.tasks - tui.finished

\* a submission arrives while a response is generated or before the session
\* exists
UntimelySubmission ==
    /\ tui'.submitted = tui.submitted + 1
    /\ (~tui.session \/ tui.is_generating)

\* C30: in the TUI at most one Session.chat call is in flight at any time: a
\* submission that arrives while a response is being generated, or before the
\* session exists, is ignored, starts no task and appends nothing to the
\* transcript.
C30_OneChatInFlight ==
    /\ [](InFlight <= 1 /\ (pc # "idle" => InFlight = 1 /\ tui.is_generating))
    /\ [][UntimelySubmission =>
              /\ tui'.tasks = tui.tasks
              /\ tui'.entries = tui.entries
              /\ tui'.is_generating = tui.is_generating
              /\ history' = history
              /\ chats' = chats
              /\ pc' = pc]_vars

\* a submission was ignored while the chat call of an earlier one was streaming
C30_Witness ==
    /\ tui.last = "generating"
    /\ pc = "stream"
    /\ tui.is_generating
    /\ InFlight = 1
    /\ tui.submitted >= 2

\* ------------------------------------------------------------ C31
\* the chat call of a task ends and the task posts its done message
TaskEndsStep == tui'.finished = tui.finished + 1
DoneHandledStep == tui'.posted = tui.posted - 1
SubmissionStep == tui'.submitted = tui.submitted + 1

\* C31: in the TUI every accepted submission eventually ends generation: when
\* Session.chat returns or raises, exactly one done message is posted, handling
\* it sets _is_generating to false and re-enables the input, so that a later
\* submission is accepted; a chat error is reported once and does not leave the
\* TUI in the generating state. (A chat call that the model's bound on requests
\* stops at the top of its loop stands for one in which the model keeps asking
\* for tools; it neither returns nor raises.)
C31_GenerationEnds ==
    /\ tui.is_generating ~>
          (~tui.is_generating \/ (pc = "loop" /\ requests = MaxRequests))
    /\ [](tui.posted <= 1)
    /\ [][/\ TaskEndsStep =>
              /\ outcome # ""
              /\ tui'.posted = tui.posted + 1
              /\ tui'.errors = tui.errors + (IF outcome = "returned" THEN 0 ELSE 1)
              /\ history' = history
          /\ ~TaskEndsStep => tui'.posted <= tui.posted /\ tui'.errors = tui.errors
          /\ DoneHandledStep => ~tui'.is_generating
          /\ (SubmissionStep /\ tui.session /\ ~tui.is_generating) =>
                 /\ tui'.last = "accepted"
                 /\ tui'.tasks = tui.tasks + 1
                 /\ tui'.is_generating]_vars

\* after a chat call that failed with a transport error was reported, the next
\* submission has been accepted
C31_Witness ==
    /\ tui.errors = 1
    /\ tui.finished = 1
    /\ tui.posted = 0
    /\ tui.tasks = 2
    /\ tui.last = "accepted"
    /\ tui.is_generating
    /\ pc = "stream"

\* ------------------------------------------------------------ C32
\* the response finishes: the done message is handled and the widget finalized
ResponseFinishes == tui.streaming /\ ~tui'.streaming

\* C32 (the claim as stated): when a response finishes, the text held by the
\* streaming widget equals the concatenation of all text deltas delivered to
\* on_chunk for that submission, each delta exactly once, for every batching
\* pattern, including response messages that arrive while earlier text is still
\* buffered and not yet flushed.
C32_WidgetShowsDeliveredText ==
    [][ResponseFinishes => tui'.shown = Concat(tui.delivered)]_vars

\* what the code keeps of C32: the text is right when no response message
\* arrived while text was buffered, and it is never shorter than the response
C32_NothingLost ==
    [][ResponseFinishes =>
          /\ Len(tui'.shown) >= Len(Concat(tui.delivered))
          /\ tui.current_response = Concat(tui.delivered)]_vars

\* ------------------------------------------------------------ C33
\* C33 (the claim as stated): clear_history may be invoked from the TUI while a
\* chat turn is awaiting or streaming a model response; even then the transcript
\* never contains an assistant or tool message that is not preceded, since the
\* last clear, by the user message of the turn that produced it.
C33_RepliesFollowTheirUserMessage ==
    \A i \in 1..Len(history) :
        history[i].role \in {"assistant", "tool"} =>
            \E j \in 1..(i - 1) : history[j].role = "user"

\* that clear_history can run then: the transcript was cleared while the chat
\* call was awaiting the stream or reading it
ClearedDuringTurn ==
    /\ pc \in {"create", "stream"}
    /\ history = ClearedHistory(config)

\* ------------------------------------------------------------ C34
\* every tool-call fragment of the turn was dropped: fragments arrived, none of
\* them carried an id, so no entry was ever opened
AllFragmentsDropped(t) ==
    /\ SomeFragment(t)
    /\ \A i \in 1..Len(Fragments(t)) : Fragments(t)[i].id = NoneVal

\* C34: if every tool-call fragment of a model turn is dropped, the assistant
\* message is appended with an empty tool_calls list, no tool is executed, no
\* tool-role message is appended, no further completion request is issued and
\* chat returns.
C34_AllDroppedEndsChat ==
    [][(TurnEnds /\ AllFragmentsDropped(turn)) =>
          /\ history' = Append(history, [role |-> "assistant",
                                         content |-> ConcatContent(turn),
                                         tool_calls |-> ToolCallList(<<>>),
                                         tool_call_id |-> NoneVal])
          /\ pc' = "idle"
          /\ outcome' = "returned"
          /\ requests' = requests
          /\ outstanding' = 0
          /\ fs' = fs
          /\ result' = result
          /\ ~MessageToDict(history'[Len(history')]).has_tool_calls]_vars

C34_Witness ==
    /\ pc = "idle"
    /\ outcome = "returned"
    /\ AllFragmentsDropped(turn)
    /\ Len(Fragments(turn)) >= 2
    /\ history[Len(history)].role = "assistant"
    /\ history[Len(history)].tool_calls = ToolCallList(<<>>)

\* ------------------------------------------------------------ C35
\* chat stands between the append of an assistant message that carries tool
\* calls and the append of its last tool result
InToolRound == pc \in {"tools", "run_tool"}

\* a step of the tool round: nothing, or the result of the call in progress is
\* appended
ToolRoundAppend ==
    \/ history' = history
    \/ /\ pc = "run_tool"
       /\ Len(history') = Len(history) + 1
       /\ SubSeq(history', 1, Len(history)) = history
       /\ history'[Len(history')].role = "tool"
       /\ history'[Len(history')].tool_call_id = message.tool_calls.list[idx].id

\* C35: between the append of an assistant message that carries tool calls and
\* the append of its last tool-result message no other task of the event loop (a
\* TUI clear_history, another chat call) runs and changes the transcript, because
\* parsing and tool execution never yield; the only interleaving points of chat
\* are the completion request and the reading of stream chunks.
C35_ToolRoundIsAtomic ==
    [][/\ InToolRound => (tui' = tui /\ chats' = chats /\ ToolRoundAppend)
       /\ tui' # tui => (pc \in {"idle", "create", "stream"} /\ pc' = pc)
       /\ pc = "loop" => (tui' = tui /\ history' = history)]_vars

\* a tool runs in a turn during whose stream the transcript was cleared
C35_Witness ==
    /\ pc = "run_tool"
    /\ tui.is_generating
    /\ Len(history) = 2
    /\ history[1].role = "system"
    /\ history[2].role = "assistant"
    /\ history[2].tool_calls.list # <<>>

\* ------------------------------------------------------------ C36
\* the parsed arguments of call i of the round in progress
ArgsOf(i) == ParseToolArguments(message.tool_calls.list[i]).args
NameOf(i) == message.tool_calls.list[i].name
PathOf(i) == DictGet(ArgsOf(i), STR_path, PyStr(<<>>))

\* the tool message that answered call i of the round in progress
ResultOf(i) == history[Len(history) - (idx - i) + 1]

\* call j of the round was a write_file call that succeeded, for the path the
\* call i now being run names, and the calls between them only read
WrittenEarlier(j, i) ==
    /\ j < i
    /\ NameOf(j) = STR_write_file
    /\ ArgsOf(j).k = "dict"
    /\ PathOf(j).k = "str"
    /\ DictGet(ArgsOf(j), STR_content, PyStr(<<>>)).k = "str"
    /\ PathOf(i) = PathOf(j)
    /\ ResultOf(j).role = "tool"
    /\ ResultOf(j).tool_call_id = message.tool_calls.list[j].id
    /\ StartsWith(ResultOf(j).content, STR_WroteTo)
    /\ \A k \in (j + 1)..(i - 1) : NameOf(k) = STR_read_file
ContentWritten(j) == DictGet(ArgsOf(j), STR_content, PyStr(<<>>)).v

\* the edits of the StrReplaceFile call being run are target/replacement maps
WellFormedEdits ==
    /\ EditsArg.k = "list"
    /\ \A e \in 1..Len(EditsArg.v) :
          /\ EditsArg.v[e].k = "dict"
          /\ \A key \in {STR_target, STR_replacement} :
                key \in DOMAIN EditsArg.v[e].v /\ EditsArg.v[e].v[key].k = "str"

\* C36: within one round, a read_file call listed after a write_file call for
\* the same path returns the content written by that call (after output
\* shaping), the earlier call's side effect being complete before the later call
\* starts; in the same way a StrReplaceFile call following a write_file call
\* edits the content written.
C36_LaterCallSeesWrite ==
    [][(pc = "run_tool" /\ pc' # "idle" /\ args.k = "dict") =>
        \A j \in 1..(idx - 1) :
            WrittenEarlier(j, idx) =>
                /\ ToolName = STR_read_file =>
                      result' = formatted_tool_output(ContentWritten(j))
                /\ (ToolName = STR_StrReplaceFile /\ WellFormedEdits) =>
                      /\ StartsWith(result', STR_Replaced)
                      /\ fs'[FilePath] = FoldReplaceFirst(ContentWritten(j), EditsArg.v)]_vars

\* the text a later call of the round reads back after call j wrote its content:
\* line endings "\r\n" and "\r" come back as "\n"
ContentReadBack(j) == UniversalNewlines(WrittenNewlines(ContentWritten(j)))

\* the part of C36 that the code keeps: the later call works on what the earlier
\* call wrote, as a text-mode read gives it back
C36_LaterCallSeesWriteAsRead ==
    [][(pc = "run_tool" /\ pc' # "idle" /\ args.k = "dict") =>
        \A j \in 1..(idx - 1) :
            WrittenEarlier(j, idx) =>
                /\ ToolName = STR_read_file =>
                      result' = formatted_tool_output(ContentReadBack(j))
                /\ (ToolName = STR_StrReplaceFile /\ WellFormedEdits) =>
                      /\ StartsWith(result', STR_Replaced)
                      /\ fs'[FilePath] = FoldReplaceFirst(ContentReadBack(j), EditsArg.v)]_vars

\* in one round the file f, which held other text, was written, then read, then
\* edited: the read returned the text written and the edit worked on it
C36_Witness ==
    /\ pc = "loop"
    /\ Len(history) >= 4
    /\ history[Len(history) - 2].role = "tool"
    /\ history[Len(history) - 2].tool_call_id = "A"
    /\ StartsWith(history[Len(history) - 2].content, STR_WroteTo)
    /\ history[Len(history) - 1].tool_call_id = "B"
    /\ history[Len(history) - 1].content = <<"b">>
    /\ history[Len(history)].tool_call_id = "C"
    /\ StartsWith(history[Len(history)].content, STR_Replaced)
    /\ fs[FILE_f] = <<"c">>

\* ------------------------------------------------------------ C37
\* run_tool is awaited for a call whose name the registry does not have
RunsUnknownTool == pc = "run_tool" /\ UnknownTool

TargetOccurs(content, target) ==
    \E i \in 1..(Len(content) + 1) :
        /\ i + Len(target) - 1 <= Len(content)
        /\ \A k \in 1..Len(target) : content[i + k - 1] = target[k]

\* the edits applied in order, an edit whose target the content reached so far
\* does not hold being passed over
RECURSIVE FoldSkippingAbsent(_, _)
FoldSkippingAbsent(content, edits) ==
    IF edits = <<>> THEN content
    ELSE LET target == Head(edits).v[STR_target].v
             replacement == Head(edits).v[STR_replacement].v
         IN  IF TargetOccurs(content, target)
             THEN FoldSkippingAbsent(
                      FirstOccurrenceReplaced(content, target, replacement), Tail(edits))
             ELSE FoldSkippingAbsent(content, Tail(edits))

\* some edit of the call being run has a target that the content does not hold
\* when its turn comes
RECURSIVE SomeTargetAbsent(_, _)
SomeTargetAbsent(content, edits) ==
    /\ edits # <<>>
    /\ \/ ~TargetOccurs(content, Head(edits).v[STR_target].v)
       \/ SomeTargetAbsent(
              FirstOccurrenceReplaced(content, Head(edits).v[STR_target].v,
                                      Head(edits).v[STR_replacement].v), Tail(edits))

\* the part of C38 about absent targets: the call reports success and the file
\* afterwards holds the content as read with the other edits applied in order
C38_AbsentTargetsPassedOver ==
    [][(/\ RunsStrReplace
        /\ SomeTargetAbsent(UniversalNewlines(fs[FilePath]), EditsArg.v)
        /\ Len(history') = Len(history) + 1) =>
          /\ StartsWith(result', STR_Replaced)
          /\ fs'[FilePath] = FoldSkippingAbsent(UniversalNewlines(fs[FilePath]), EditsArg.v)]_vars

\* an edit list [{z->y},{a->b}] was applied to a file without z: the second
\* edit was made
C38_AbsentTargetCase ==
    /\ pc = "loop"
    /\ StartsWith(result, STR_Replaced)
    /\ args.k = "dict"
    /\ EditsArg.k = "list"
    /\ Len(EditsArg.v) = 2
    /\ EditsArg.v[1].v[STR_target] = PyStr(<<"z">>)
    /\ fs[FILE_f] = <<"b", " ", "a">>

\* C38: in StrReplaceFile an edit whose target does not occur in the current
\* content leaves the content unchanged, the remaining edits are still applied
\* and the call reports success; with an empty edit list the content of the file
\* after the call equals its content before the call.
C38_AbsentTargetSkippedEmptyListKeepsFile ==
    [][(RunsStrReplace /\ Len(history') = Len(history) + 1) =>
          /\ StartsWith(result', STR_Replaced)
          /\ SomeTargetAbsent(UniversalNewlines(fs[FilePath]), EditsArg.v) =>
                fs'[FilePath] = FoldSkippingAbsent(UniversalNewlines(fs[FilePath]), EditsArg.v)
          /\ EditsArg.v = <<>> => fs'[FilePath] = fs[FilePath]]_vars

\* ------------------------------------------------------------ C39
\* an element of an edit list that str_replace cannot apply: not a map, or a map
\* whose target or replacement is not a text
NotAnEdit(e) ==
    \/ e.k # "dict"
    \/ \E key \in {STR_target, STR_replacement} :
          key \in DOMAIN e.v /\ e.v[key].k # "str"

\* the StrReplaceFile call being run fails while reading the file (there is no
\* such file) or while going through its edits
FailsReadingOrApplying ==
    /\ pc = "run_tool"
    /\ ToolName = STR_StrReplaceFile
    /\ args.k = "dict"
    /\ PathArg.k = "str"
    /\ \/ ~IsFile(fs, FilePath)
       \/ EditsArg.k \notin {"list", "str", "dict"}
       \/ EditsArg.k \in {"str", "dict"} /\ EditsArg.v # <<>>
       \/ EditsArg.k = "list" /\ \E i \in 1..Len(EditsArg.v) : NotAnEdit(EditsArg.v[i])

\* C39: if StrReplaceFile fails while reading the file or while applying an edit
\* (for example an edit that is not a target/replacement map), the call returns
\* an error text, which becomes the tool message, and the files are as they
\* were: no partial set of edits is written.
C39_FailedEditsWriteNothing ==
    [][FailsReadingOrApplying =>
          /\ StartsWith(result', STR_ErrorReplacing)
          /\ fs' = fs
          /\ outcome' = ""
          /\ Len(history') = Len(history) + 1
          /\ history'[Len(history')].role = "tool"
          /\ history'[Len(history')].content = result']_vars

\* the edits [{a->b}, 1] were run on the file f: the call answered with the
\* error text and f holds what it held
C39_Witness ==
    /\ pc = "loop"
    /\ StartsWith(result, STR_ErrorReplacing)
    /\ args.k = "dict"
    /\ EditsArg.k = "list"
    /\ Len(EditsArg.v) = 2
    /\ EditsArg.v[1].k = "dict"
    /\ EditsArg.v[2].k # "dict"
    /\ fs \in ToolFiles

====
